---------------------------- MODULE Spec2Model ----------------------------
(***************************************************************************)
(* A model of packages/dol-wasm/src/lib.rs: the DOL lexer, the bracket     *)
(* validator, the recursive-descent parser and the compile_dol /           *)
(* validate_dol entry points.                                              *)
(*                                                                         *)
(* A source text is a sequence of one-character strings.  A Rust String    *)
(* (identifier text, body text, message) is a sequence of characters too,  *)
(* except for the fixed messages and error types, which are TLA+ strings.  *)
(* Option<T> is a sequence of length 0 (None) or 1 (Some).                 *)
(***************************************************************************)
EXTENDS Integers, Sequences, FiniteSets

VARIABLES
    source,         \* the &str handed to validate_brackets / compile_dol / validate_dol
    pc,             \* position of the caller: which entry point runs, and where
    bv,             \* the locals of validate_brackets
    p,              \* the Parser (with its Lexer and the frames of the parse_* calls)
    bracket_errors, \* compile_dol's bracket_errors
    result,         \* the CompileResult built by compile_dol
    valid,          \* the bool returned by validate_dol
    lexing,         \* a Lexer whose next_token is called directly
    returned,       \* the (Token, line, column) its last call returned, if any
    eof_calls       \* the number of its calls that returned Eof

lexvars == <<lexing, returned, eof_calls>>
vars == <<source, pc, bv, p, bracket_errors, result, valid, lexvars>>

(***************************************************************************)
(* Bounds of the model.                                                    *)
(***************************************************************************)
\* Number of fragments a source of the compile/validate runs is built from.
MaxFrags == 3
\* Number of tokens that follow the opening of a member in the member runs.
MaxToks == 4
\* Number of characters validate_brackets is fed in the character-level scan.
MaxScan == 5
\* Number of characters of a source whose tokens are pulled one by one.
MaxLex == 4
\* Number of calls of next_token made at the end of the input.
MaxEofCalls == 3

(***************************************************************************)
(* Characters.  char::is_alphabetic and char::is_numeric are modelled on   *)
(* the ASCII letters and digits.                                           *)
(***************************************************************************)
Letters ==
    {"a", "b", "c", "d", "e", "f", "g", "h", "i", "j", "k", "l", "m", "n", "o",
     "p", "q", "r", "s", "t", "u", "v", "w", "x", "y", "z", "A", "B", "C", "I", "T",
     "U", "X"}
Digits == {"0", "1", "2", "3", "4", "5", "6", "7", "8", "9"}

is_alphabetic(c) == c \in Letters
is_numeric(c) == c \in Digits
is_alphanumeric(c) == is_alphabetic(c) \/ is_numeric(c)

\* Option<T>
None == <<>>
Some(v) == <<v>>

\* The result of Chars::next / peek at the end of the input (Option<char>::None).
NoChar == ""

(***************************************************************************)
(* Lexer                                                                   *)
(***************************************************************************)
Lexer_new(src) == [source |-> src, pos |-> 1, line |-> 1, column |-> 1]

peek_char(lx) == IF lx.pos > Len(lx.source) THEN NoChar ELSE lx.source[lx.pos]

\* next_char counting a newline as one more column of the same line.
next_char_ignores_newline(lx) ==
    IF lx.pos > Len(lx.source) THEN lx
    ELSE [lx EXCEPT !.pos = @ + 1, !.column = @ + 1]

\* next_char counting a column also when the input is at its end.
next_char_counts_end(lx) ==
    IF lx.pos > Len(lx.source) THEN [lx EXCEPT !.column = @ + 1]
    ELSE IF lx.source[lx.pos] = "\n"
         THEN [lx EXCEPT !.pos = @ + 1, !.line = @ + 1, !.column = 1]
         ELSE [lx EXCEPT !.pos = @ + 1, !.column = @ + 1]

\* The lexer after next_char(); the character returned is peek_char(lx).
next_char(lx) ==
    IF lx.pos > Len(lx.source) THEN lx
    ELSE IF lx.source[lx.pos] = "\n"
         THEN [lx EXCEPT !.pos = @ + 1, !.line = @ + 1, !.column = 1]
         ELSE [lx EXCEPT !.pos = @ + 1, !.column = @ + 1]

RECURSIVE skip_whitespace(_)
skip_whitespace(lx) ==
    IF peek_char(lx) \in {" ", "\t", "\r"}
    THEN skip_whitespace(next_char(lx))
    ELSE lx

\* The loops of the lexer that collect a text work on r = [text, lexer]: the
\* String pushed to and the lexer, both as they are at the head of the loop.
Push(r) == [r EXCEPT !.text = Append(@, peek_char(r.lexer)), !.lexer = next_char(@)]
Skip(r) == [r EXCEPT !.lexer = next_char(@)]

\* read_identifier, started with the text <<first>>.
RECURSIVE read_identifier(_)
read_identifier(r) ==
    IF is_alphanumeric(peek_char(r.lexer)) \/ peek_char(r.lexer) = "_"
    THEN read_identifier(Push(r))
    ELSE r

\* The loop shared by the version literal and the numeric literal:
\* while the next character is numeric or '.', push it.
RECURSIVE read_digits_and_dots(_)
read_digits_and_dots(r) ==
    IF is_numeric(peek_char(r.lexer)) \/ peek_char(r.lexer) = "."
    THEN read_digits_and_dots(Push(r))
    ELSE r

\* read_string: a backslash pushes the character after it, if there is one.
RECURSIVE read_string(_, _)
read_string(r, quote) ==
    CASE peek_char(r.lexer) = NoChar -> r
      [] peek_char(r.lexer) = quote -> Skip(r)
      [] peek_char(r.lexer) = "\\" -> read_string(
            IF peek_char(next_char(r.lexer)) # NoChar THEN Push(Skip(r)) ELSE Skip(r),
            quote)
      [] OTHER -> read_string(Push(r), quote)

RECURSIVE read_line_comment(_)
read_line_comment(r) ==
    IF peek_char(r.lexer) \in {NoChar, "\n"} THEN r ELSE read_line_comment(Push(r))

\* String::pop
Pop(s) == IF Len(s) = 0 THEN s ELSE SubSeq(s, 1, Len(s) - 1)

\* read_block_comment; r.prev is the character read by the iteration before.
RECURSIVE read_block_comment(_)
read_block_comment(r) ==
    CASE peek_char(r.lexer) = NoChar -> r
      [] r.prev = "*" /\ peek_char(r.lexer) = "/" ->
            [r EXCEPT !.text = Pop(@), !.lexer = next_char(@)]
      [] OTHER -> read_block_comment([Push(r) EXCEPT !.prev = peek_char(r.lexer)])

Tok(kind, text) == [kind |-> kind, text |-> text]

\* The match on ident.as_str() in next_token.
KeywordToken(ident) ==
    CASE ident = <<"s", "p", "i", "r", "i", "t">> -> Tok("Spirit", <<>>)
      [] ident = <<"g", "e", "n", "e">> -> Tok("Gene", <<>>)
      [] ident = <<"t", "r", "a", "i", "t">> -> Tok("Trait", <<>>)
      [] ident = <<"f", "u", "n">> -> Tok("Fun", <<>>)
      [] ident = <<"s", "e", "x">> -> Tok("Sex", <<>>)
      [] ident = <<"h", "a", "s">> -> Tok("Has", <<>>)
      [] ident = <<"l", "e", "t">> -> Tok("Let", <<>>)
      [] ident = <<"c", "o", "n", "s", "t">> -> Tok("Const", <<>>)
      [] ident = <<"m", "u", "t">> -> Tok("Mut", <<>>)
      [] ident = <<"i", "f">> -> Tok("If", <<>>)
      [] ident = <<"e", "l", "s", "e">> -> Tok("Else", <<>>)
      [] ident = <<"m", "a", "t", "c", "h">> -> Tok("Match", <<>>)
      [] ident = <<"r", "e", "t", "u", "r", "n">> -> Tok("Return", <<>>)
      [] ident = <<"e", "x", "e", "g", "e", "s", "i", "s">> -> Tok("Exegesis", <<>>)
      [] ident = <<"c", "o", "n", "s", "t", "r", "a", "i", "n", "t">> -> Tok("Constraint", <<>>)
      [] ident = <<"p", "u", "b">> -> Tok("Pub", <<>>)
      [] ident = <<"s", "e", "l", "f">> -> Tok("Self_", <<>>)
      [] OTHER -> Tok("Identifier", ident)

\* The tokens of one character that need no lookahead.
SingleCharKind(c) ==
    CASE c = "\n" -> "Newline"
      [] c = "{" -> "OpenBrace"
      [] c = "}" -> "CloseBrace"
      [] c = "(" -> "OpenParen"
      [] c = ")" -> "CloseParen"
      [] c = "[" -> "OpenBracket"
      [] c = "]" -> "CloseBracket"
      [] c = ":" -> "Colon"
      [] c = "," -> "Comma"
      [] c = "." -> "Dot"
      [] c = "+" -> "Plus"
      [] c = "*" -> "Star"
      [] OTHER -> "Unknown"

\* The two-character operators all taken for `->`.
ArrowKind_always_arrow(c) == "Arrow"

\* The two-character operators: the token when '>' follows, and when not.
ArrowKind(c) == CASE c = "-" -> "Arrow" [] c = "=" -> "FatArrow" [] OTHER -> "PipeArrow"
PlainKind(c) == CASE c = "-" -> "Minus" [] c = "=" -> "Equals" [] OTHER -> "Pipe"

\* next_token: the token, its position, and the lexer after it.
next_token(lx0) ==
    LET lx == skip_whitespace(lx0)
        line == lx.line
        column == lx.column
        c == peek_char(lx)
        lx1 == next_char(lx)
        Ret(tok, l) == [token |-> tok, line |-> line, column |-> column, lexer |-> l]
    IN  CASE c = NoChar -> Ret(Tok("Eof", <<>>), lx1)
          [] c \in {"\n", "{", "}", "(", ")", "[", "]", ":", ",", ".", "+", "*"} ->
                Ret(Tok(SingleCharKind(c), <<>>), lx1)
          [] c \in {"-", "=", "|"} ->
                IF peek_char(lx1) = ">"
                THEN Ret(Tok(ArrowKind(c), <<>>), next_char(lx1))
                ELSE Ret(Tok(PlainKind(c), <<>>), lx1)
          [] c = "@" ->
                LET r == read_digits_and_dots([text |-> <<>>, lexer |-> lx1])
                IN  Ret(Tok("Version", r.text), r.lexer)
          [] c = "/" ->
                IF peek_char(lx1) = "/"
                THEN LET r == read_line_comment([text |-> <<>>, lexer |-> next_char(lx1)])
                     IN  Ret(Tok("Comment", r.text), r.lexer)
                ELSE IF peek_char(lx1) = "*"
                     THEN LET r == read_block_comment(
                                     [text |-> <<>>, lexer |-> next_char(lx1), prev |-> " "])
                          IN  Ret(Tok("Comment", r.text), r.lexer)
                     ELSE Ret(Tok("Slash", <<>>), lx1)
          [] c \in {"\"", "'"} ->
                LET r == read_string([text |-> <<>>, lexer |-> lx1], c)
                IN  Ret(Tok("StringLiteral", r.text), r.lexer)
          [] is_alphabetic(c) \/ c = "_" ->
                LET r == read_identifier([text |-> <<c>>, lexer |-> lx1])
                IN  Ret(KeywordToken(r.text), r.lexer)
          [] is_numeric(c) ->
                LET r == read_digits_and_dots([text |-> <<c>>, lexer |-> lx1])
                IN  Ret(Tok("NumberLiteral", r.text), r.lexer)
          [] OTHER -> Ret(Tok("Unknown", <<c>>), lx1)

(***************************************************************************)
(* validate_brackets                                                       *)
(***************************************************************************)
CompileError(message, line, column, error_type) ==
    [message |-> message, line |-> line, column |-> column, error_type |-> error_type]

\* The locals of validate_brackets before the scan.
BvInit ==
    [errors |-> <<>>, brace_stack |-> <<>>, paren_stack |-> <<>>,
     line |-> 1, column |-> 1,
     in_string |-> FALSE, string_char |-> "\"", prev_char |-> " "]

\* The string-literal toggle of one iteration: in_string and string_char after it.
string_toggle(b, c) ==
    IF ~b.in_string /\ (c = "\"" \/ c = "'")
    THEN [in_string |-> TRUE, string_char |-> c]
    ELSE IF b.in_string /\ c = b.string_char /\ b.prev_char # "\\"
         THEN [in_string |-> FALSE, string_char |-> b.string_char]
         ELSE [in_string |-> b.in_string, string_char |-> b.string_char]

\* bracket_match dropping an unmatched closer without an error.
bracket_match_drops_closer(b, c) ==
    CASE c = "{" ->
            [b EXCEPT !.brace_stack = Append(@, <<c, b.line, b.column>>)]
      [] c = "}" -> [b EXCEPT !.brace_stack = Pop(@)]
      [] c = "(" ->
            [b EXCEPT !.paren_stack = Append(@, <<c, b.line, b.column>>)]
      [] c = ")" -> [b EXCEPT !.paren_stack = Pop(@)]
      [] OTHER -> b

\* bracket_match keeping braces and parentheses on one stack, a closer that
\* does not match the top being reported.
bracket_match_one_stack(b, c) ==
    CASE c \in {"{", "("} ->
            [b EXCEPT !.brace_stack = Append(@, <<c, b.line, b.column>>)]
      [] c \in {"}", ")"} ->
            IF Len(b.brace_stack) = 0
               \/ b.brace_stack[Len(b.brace_stack)][1] # (IF c = "}" THEN "{" ELSE "(")
            THEN [b EXCEPT !.errors = Append(@, CompileError(
                     IF c = "}" THEN "Unexpected closing brace '}'"
                                ELSE "Unexpected closing parenthesis ')'",
                     b.line, b.column, "BracketError"))]
            ELSE [b EXCEPT !.brace_stack = Pop(@)]
      [] OTHER -> b

\* The match on c, taken when the character is outside a string.
bracket_match(b, c) ==
    CASE c = "{" ->
            [b EXCEPT !.brace_stack = Append(@, <<c, b.line, b.column>>)]
      [] c = "}" ->
            IF Len(b.brace_stack) = 0
            THEN [b EXCEPT !.errors = Append(@, CompileError(
                     "Unexpected closing brace '}'", b.line, b.column, "BracketError"))]
            ELSE [b EXCEPT !.brace_stack = Pop(@)]
      [] c = "(" ->
            [b EXCEPT !.paren_stack = Append(@, <<c, b.line, b.column>>)]
      [] c = ")" ->
            IF Len(b.paren_stack) = 0
            THEN [b EXCEPT !.errors = Append(@, CompileError(
                     "Unexpected closing parenthesis ')'", b.line, b.column, "BracketError"))]
            ELSE [b EXCEPT !.paren_stack = Pop(@)]
      [] OTHER -> b

\* The scan taking what stands right after a '/' for the text of a comment.
bracket_step_skips_after_slash(b, c) ==
    IF c = "\n"
    THEN [b EXCEPT !.line = @ + 1, !.column = 1]
    ELSE LET t == string_toggle(b, c)
             b1 == IF b.prev_char = "/" THEN b
                   ELSE [b EXCEPT !.in_string = t.in_string, !.string_char = t.string_char]
             b2 == IF ~b1.in_string /\ b.prev_char # "/" THEN bracket_match(b1, c) ELSE b1
         IN  [b2 EXCEPT !.prev_char = c, !.column = @ + 1]

\* One iteration of `for c in source.chars()`.
bracket_step(b, c) ==
    IF c = "\n"
    THEN [b EXCEPT !.line = @ + 1, !.column = 1]
    ELSE LET t == string_toggle(b, c)
             b1 == [b EXCEPT !.in_string = t.in_string, !.string_char = t.string_char]
             b2 == IF ~b1.in_string THEN bracket_match(b1, c) ELSE b1
         IN  [b2 EXCEPT !.prev_char = c, !.column = @ + 1]

\* The errors pushed for the entries left on a stack.
RECURSIVE unclosed_errors(_, _)
unclosed_errors(stack, message) ==
    IF Len(stack) = 0 THEN <<>>
    ELSE <<CompileError(message, stack[1][2], stack[1][3], "BracketError")>>
         \o unclosed_errors(Tail(stack), message)

\* The two loops after the scan ("Check for unclosed brackets").
bracket_finish(b) ==
    [b EXCEPT !.errors = @ \o unclosed_errors(b.brace_stack, "Unclosed brace '{'")
                           \o unclosed_errors(b.paren_stack, "Unclosed parenthesis '('")]

\* The `for ch in source.chars()` loop: st.b holds the locals of
\* validate_brackets and st.i the position of the iterator.
RECURSIVE bracket_scan(_, _)
bracket_scan(st, src) ==
    IF st.i > Len(src) THEN st.b
    ELSE bracket_scan([b |-> bracket_step(st.b, src[st.i]), i |-> st.i + 1], src)

validate_brackets(src) ==
    bracket_finish(bracket_scan([b |-> BvInit, i |-> 1], src)).errors

(***************************************************************************)
(* Parser.  p.pc is the loop the parser is in ("parse", "parse_body",      *)
(* "params", "function_body", "constraint_body", "exegesis_body") or       *)
(* "done" once parse has returned; p.nodes is the `nodes` of parse, p.blk  *)
(* the frame of parse_spirit / parse_gene with its parse_body, and p.fn    *)
(* the frame of parse_function / parse_constraint / parse_exegesis.        *)
(***************************************************************************)
NoBlk ==
    [active |-> FALSE, kind |-> "", name |-> <<>>, version |-> None,
     line |-> 0, body |-> <<>>, brace_depth |-> 0]
NoFn ==
    [kind |-> "", name |-> <<>>, params |-> <<>>, return_type |-> None,
     body |-> <<>>, effectful |-> FALSE, line |-> 0, brace_depth |-> 0]

\* The results of the successive calls of next_token on a lexer, up to and
\* including the first Eof.  next_token reads nothing but the lexer, so the
\* parser's lexer is kept as this sequence and the index of the next result.
RunPush(st, r) ==
    [run |-> Append(st.run, [token |-> r.token, line |-> r.line, column |-> r.column]),
     lexer |-> r.lexer]
RECURSIVE LexerRunFrom(_)
LexerRunFrom(st) ==
    IF st.run # <<>> /\ st.run[Len(st.run)].token.kind = "Eof"
    THEN st.run
    ELSE LexerRunFrom(RunPush(st, next_token(st.lexer)))
LexerRun(lx) == LexerRunFrom([run |-> <<>>, lexer |-> lx])

\* self.lexer.next_token() in the parser: at the end of the input the lexer
\* stays where it is and returns the Eof again.
LexerPull(l) ==
    [result |-> l.run[l.next],
     lexer |-> [l EXCEPT !.next = IF @ < Len(l.run) THEN @ + 1 ELSE @]]

advance(q) ==
    LET r == LexerPull(q.lexer)
    IN  [q EXCEPT !.lexer = r.lexer, !.current_token = r.result.token,
                  !.current_line = r.result.line,
                  !.current_column = r.result.column]

Parser_new(src) ==
    advance([lexer |-> [run |-> LexerRun(Lexer_new(src)), next |-> 1],
             current_token |-> Tok("Eof", <<>>),
             current_line |-> 1, current_column |-> 1,
             errors |-> <<>>, warnings |-> <<>>,
             pc |-> "parse", nodes |-> <<>>, blk |-> NoBlk, fn |-> NoFn])

RECURSIVE skip_newlines(_)
skip_newlines(q) ==
    IF q.current_token.kind = "Newline" THEN skip_newlines(advance(q)) ELSE q

add_error(q, message, error_type) ==
    [q EXCEPT !.errors = Append(@, CompileError(
        message, q.current_line, q.current_column, error_type))]

Kind(q) == q.current_token.kind

\* str::trim
IsSpace(c) == c \in {" ", "\n", "\t", "\r"}
RECURSIVE TrimStart(_)
TrimStart(s) == IF Len(s) > 0 /\ IsSpace(s[1]) THEN TrimStart(Tail(s)) ELSE s
RECURSIVE TrimEnd(_)
TrimEnd(s) == IF Len(s) > 0 /\ IsSpace(s[Len(s)]) THEN TrimEnd(Pop(s)) ELSE s
Trim(s) == TrimEnd(TrimStart(s))

\* Every finished member pushed to the top-level list, in a body or not.
PushNode_top_level(q, node) == [q EXCEPT !.nodes = Append(@, node)]

\* nodes.push / body.push in the caller of a member: parse_body when a block
\* is open, parse otherwise; and the loop that caller is in.
PushNode(q, node) ==
    IF q.blk.active
    THEN [q EXCEPT !.blk.body = Append(@, node)]
    ELSE [q EXCEPT !.nodes = Append(@, node)]
CallerPc(q) == IF q.blk.active THEN "parse_body" ELSE "parse"

\* The end of parse_spirit / parse_gene: the node built from the frame.
block_finish(q) ==
    LET node == IF q.blk.kind = "Spirit"
                THEN [type |-> "Spirit", name |-> q.blk.name, version |-> q.blk.version,
                      body |-> q.blk.body, line |-> q.blk.line]
                ELSE [type |-> "Gene", name |-> q.blk.name,
                      body |-> q.blk.body, line |-> q.blk.line]
    IN  [q EXCEPT !.nodes = Append(@, node), !.blk = NoBlk, !.pc = "parse"]

\* parse_spirit and parse_gene up to the call of parse_body.
block_open(q, kind, name, version, line) ==
    IF Kind(q) # "OpenBrace"
    THEN add_error(q, IF kind = "Spirit" THEN "Expected '{' after spirit name"
                                         ELSE "Expected '{' after gene name",
                   "SyntaxError")
    ELSE [advance(q) EXCEPT
            !.blk = [active |-> TRUE, kind |-> kind, name |-> name, version |-> version,
                     line |-> line, body |-> <<>>, brace_depth |-> 1],
            !.pc = "parse_body"]

\* parse_spirit forgetting the version literal it has consumed.
parse_spirit_drops_version(q) ==
    LET line == q.current_line
        q1 == skip_newlines(advance(q))
    IN  IF Kind(q1) # "Identifier"
        THEN add_error(q1, "Expected identifier", "SyntaxError")
        ELSE LET name == q1.current_token.text
                 q2 == skip_newlines(advance(q1))
             IN  IF Kind(q2) = "Version"
                 THEN block_open(skip_newlines(advance(q2)), "Spirit", name, None, line)
                 ELSE block_open(q2, "Spirit", name, None, line)

parse_spirit(q) ==
    LET line == q.current_line
        q1 == skip_newlines(advance(q))
    IN  IF Kind(q1) # "Identifier"
        THEN add_error(q1, "Expected identifier", "SyntaxError")
        ELSE LET name == q1.current_token.text
                 q2 == skip_newlines(advance(q1))
             IN  IF Kind(q2) = "Version"
                 THEN block_open(skip_newlines(advance(q2)), "Spirit", name,
                                 Some(q2.current_token.text), line)
                 ELSE block_open(q2, "Spirit", name, None, line)

\* parse_gene consuming the token that is not an identifier.
parse_gene_consumes_offender(q) ==
    LET line == q.current_line
        q1 == skip_newlines(advance(q))
    IN  IF Kind(q1) # "Identifier"
        THEN advance(add_error(q1, "Expected identifier", "SyntaxError"))
        ELSE block_open(skip_newlines(advance(q1)), "Gene",
                        q1.current_token.text, None, line)

\* parse_gene going on to the body after reporting the missing name.
parse_gene_recovers_into_body(q) ==
    LET line == q.current_line
        q1 == skip_newlines(advance(q))
    IN  IF Kind(q1) # "Identifier"
        THEN block_open(add_error(q1, "Expected identifier", "SyntaxError"),
                        "Gene", <<>>, None, line)
        ELSE block_open(skip_newlines(advance(q1)), "Gene",
                        q1.current_token.text, None, line)

parse_gene(q) ==
    LET line == q.current_line
        q1 == skip_newlines(advance(q))
    IN  IF Kind(q1) # "Identifier"
        THEN add_error(q1, "Expected identifier", "SyntaxError")
        ELSE block_open(skip_newlines(advance(q1)), "Gene",
                        q1.current_token.text, None, line)

\* The end of parse_function: Some(DolNode::Function {..}) pushed by the caller.
function_finish(q) ==
    LET node == [type |-> "Function", name |-> q.fn.name, params |-> q.fn.params,
                 return_type |-> q.fn.return_type, body |-> Trim(q.fn.body),
                 effectful |-> q.fn.effectful, line |-> q.fn.line]
    IN  [PushNode(q, node) EXCEPT !.fn = NoFn, !.pc = CallerPc(q)]

\* parse_function after the parameter list: the return type, and the body's '{'.
function_after_params(q) ==
    LET q1 == skip_newlines(q)
        q2 == IF Kind(q1) = "Arrow"
              THEN LET q3 == skip_newlines(advance(q1))
                   IN  IF Kind(q3) = "Identifier"
                       THEN [advance(q3) EXCEPT
                               !.fn.return_type = Some(q3.current_token.text)]
                       ELSE q3
              ELSE q1
        q4 == skip_newlines(q2)
    IN  IF Kind(q4) = "OpenBrace"
        THEN [advance(q4) EXCEPT !.fn.brace_depth = 1, !.pc = "function_body"]
        ELSE function_finish(q4)

\* The end of the parameter loop: `if self.current_token == Token::CloseParen`.
params_exit(q) ==
    function_after_params(IF Kind(q) = "CloseParen" THEN advance(q) ELSE q)

\* parse_function up to the parameter loop.
parse_function(q, effectful) ==
    LET line == q.current_line
        q1 == skip_newlines(advance(q))
    IN  IF Kind(q1) # "Identifier"
        THEN add_error(q1, "Expected identifier", "SyntaxError")
        ELSE LET q2 == [skip_newlines(advance(q1)) EXCEPT
                          !.fn = [kind |-> "Function", name |-> q1.current_token.text,
                                  params |-> <<>>, return_type |-> None, body |-> <<>>,
                                  effectful |-> effectful, line |-> line,
                                  brace_depth |-> 0]]
             IN  IF Kind(q2) = "OpenParen"
                 THEN [advance(q2) EXCEPT !.pc = "params"]
                 ELSE function_after_params(q2)

\* The parameter loop adding the type written after ':' to params as well.
params_iter_keeps_type(q0) ==
    LET q == skip_newlines(q0)
    IN  IF Kind(q) = "Identifier"
        THEN LET q1 == skip_newlines(advance(
                         [q EXCEPT !.fn.params = Append(@, q.current_token.text)]))
                 q2 == IF Kind(q1) = "Colon"
                       THEN LET q3 == skip_newlines(advance(q1))
                            IN  IF Kind(q3) = "Identifier"
                                THEN advance([q3 EXCEPT !.fn.params =
                                                Append(@, q3.current_token.text)])
                                ELSE q3
                       ELSE q1
                 q4 == skip_newlines(q2)
             IN  IF Kind(q4) = "Comma" THEN advance(q4) ELSE q4
        ELSE IF Kind(q) = "CloseParen"
             THEN q
             ELSE advance(q)

\* One iteration of the parameter loop of parse_function.
params_iter(q0) ==
    LET q == skip_newlines(q0)
    IN  IF Kind(q) = "Identifier"
        THEN LET q1 == skip_newlines(advance(
                         [q EXCEPT !.fn.params = Append(@, q.current_token.text)]))
                 q2 == IF Kind(q1) = "Colon"
                       THEN LET q3 == skip_newlines(advance(q1))
                            IN  IF Kind(q3) = "Identifier" THEN advance(q3) ELSE q3
                       ELSE q1
                 q4 == skip_newlines(q2)
             IN  IF Kind(q4) = "Comma" THEN advance(q4) ELSE q4
        ELSE IF Kind(q) = "CloseParen"
             THEN q
             ELSE advance(q)

\* The text pushed to a function body for one token.
function_body_text(q) ==
    LET t == q.current_token
    IN  CASE t.kind = "OpenBrace" -> <<"{">>
          [] t.kind = "CloseBrace" -> IF q.fn.brace_depth - 1 > 0 THEN <<"}">> ELSE <<>>
          [] t.kind = "Identifier" -> t.text
          [] t.kind = "Self_" -> <<"s", "e", "l", "f">>
          [] t.kind = "Return" -> <<"r", "e", "t", "u", "r", "n">>
          [] t.kind = "StringLiteral" -> <<"\"">> \o t.text \o <<"\"">>
          [] t.kind = "NumberLiteral" -> t.text
          [] t.kind = "Dot" -> <<".">>
          [] t.kind = "Plus" -> <<"+">>
          [] t.kind = "Minus" -> <<"-">>
          [] t.kind = "Star" -> <<"*">>
          [] t.kind = "Slash" -> <<"/">>
          [] t.kind = "Equals" -> <<"=">>
          [] t.kind = "Newline" -> <<"\n">>
          [] OTHER -> <<" ">>

\* The brace depth of a raw body that does not count an inner '{'.
DepthAfter_ignores_open(q) ==
    CASE Kind(q) = "CloseBrace" -> q.fn.brace_depth - 1
      [] OTHER -> q.fn.brace_depth

\* The brace depth of a raw body after one token.
DepthAfter(q) ==
    CASE Kind(q) = "OpenBrace" -> q.fn.brace_depth + 1
      [] Kind(q) = "CloseBrace" -> q.fn.brace_depth - 1
      [] OTHER -> q.fn.brace_depth

\* One iteration of the body loop of parse_function.
function_body_iter(q) ==
    advance([q EXCEPT !.fn.body = @ \o function_body_text(q),
                      !.fn.brace_depth = DepthAfter(q)])

\* parse_field taking the token after '=' as the default value whatever it is.
parse_field_any_default(q) ==
    LET line == q.current_line
        q1 == skip_newlines(advance(q))
    IN  IF Kind(q1) # "Identifier"
        THEN add_error(q1, "Expected identifier", "SyntaxError")
        ELSE LET name == q1.current_token.text
                 q2 == skip_newlines(advance(q1))
                 q3 == IF Kind(q2) = "Colon" THEN skip_newlines(advance(q2)) ELSE q2
                 typed == Kind(q2) = "Colon" /\ Kind(q3) = "Identifier"
                 field_type == IF typed THEN q3.current_token.text
                               ELSE <<"U", "n", "k", "n", "o", "w", "n">>
                 q4 == skip_newlines(IF typed THEN advance(q3) ELSE q3)
                 q5 == IF Kind(q4) = "Equals" THEN skip_newlines(advance(q4)) ELSE q4
                 hasval == Kind(q4) = "Equals"
                 default_value ==
                    IF ~hasval THEN None
                    ELSE IF Kind(q5) = "StringLiteral"
                         THEN Some(<<"\"">> \o q5.current_token.text \o <<"\"">>)
                         ELSE Some(q5.current_token.text)
                 q6 == IF hasval THEN advance(q5) ELSE q5
             IN  PushNode(q6, [type |-> "Field", name |-> name, field_type |-> field_type,
                               default_value |-> default_value, line |-> line])

\* parse_field
parse_field(q) ==
    LET line == q.current_line
        q1 == skip_newlines(advance(q))
    IN  IF Kind(q1) # "Identifier"
        THEN add_error(q1, "Expected identifier", "SyntaxError")
        ELSE LET name == q1.current_token.text
                 q2 == skip_newlines(advance(q1))
                 q3 == IF Kind(q2) = "Colon" THEN skip_newlines(advance(q2)) ELSE q2
                 typed == Kind(q2) = "Colon" /\ Kind(q3) = "Identifier"
                 field_type == IF typed THEN q3.current_token.text
                               ELSE <<"U", "n", "k", "n", "o", "w", "n">>
                 q4 == skip_newlines(IF typed THEN advance(q3) ELSE q3)
                 q5 == IF Kind(q4) = "Equals" THEN skip_newlines(advance(q4)) ELSE q4
                 hasval == Kind(q4) = "Equals"
                           /\ Kind(q5) \in {"StringLiteral", "NumberLiteral", "Identifier"}
                 default_value ==
                    IF ~hasval THEN None
                    ELSE IF Kind(q5) = "StringLiteral"
                         THEN Some(<<"\"">> \o q5.current_token.text \o <<"\"">>)
                         ELSE Some(q5.current_token.text)
                 q6 == IF hasval THEN advance(q5) ELSE q5
             IN  PushNode(q6, [type |-> "Field", name |-> name, field_type |-> field_type,
                               default_value |-> default_value, line |-> line])

\* The end of parse_constraint.
constraint_finish(q) ==
    LET node == [type |-> "Constraint", name |-> q.fn.name, body |-> Trim(q.fn.body),
                 line |-> q.fn.line]
    IN  [PushNode(q, node) EXCEPT !.fn = NoFn, !.pc = CallerPc(q)]

\* parse_constraint up to its body loop.
parse_constraint(q) ==
    LET line == q.current_line
        q1 == skip_newlines(advance(q))
    IN  IF Kind(q1) # "Identifier"
        THEN add_error(q1, "Expected identifier", "SyntaxError")
        ELSE LET q2 == [skip_newlines(advance(q1)) EXCEPT
                          !.fn = [kind |-> "Constraint", name |-> q1.current_token.text,
                                  params |-> <<>>, return_type |-> None, body |-> <<>>,
                                  effectful |-> FALSE, line |-> line, brace_depth |-> 0]]
             IN  IF Kind(q2) = "OpenBrace"
                 THEN [advance(q2) EXCEPT !.fn.brace_depth = 1, !.pc = "constraint_body"]
                 ELSE constraint_finish(q2)

\* The text pushed to a constraint body for one token.
constraint_body_text(q) ==
    LET t == q.current_token
    IN  CASE t.kind = "OpenBrace" -> <<"{">>
          [] t.kind = "CloseBrace" -> IF q.fn.brace_depth - 1 > 0 THEN <<"}">> ELSE <<>>
          [] t.kind = "Identifier" -> t.text
          [] t.kind = "Self_" -> <<"s", "e", "l", "f">>
          [] t.kind = "Dot" -> <<".">>
          [] t.kind = "Newline" -> <<"\n">>
          [] OTHER -> <<" ">>

\* One iteration of the body loop of parse_constraint.
constraint_body_iter(q) ==
    advance([q EXCEPT !.fn.body = @ \o constraint_body_text(q),
                      !.fn.brace_depth = DepthAfter(q)])

\* The end of parse_exegesis.
exegesis_finish(q) ==
    LET node == [type |-> "Exegesis", content |-> Trim(q.fn.body), line |-> q.fn.line]
    IN  [PushNode(q, node) EXCEPT !.fn = NoFn, !.pc = CallerPc(q)]

\* parse_exegesis up to its body loop.
parse_exegesis(q) ==
    LET line == q.current_line
        q2 == [skip_newlines(advance(q)) EXCEPT
                 !.fn = [kind |-> "Exegesis", name |-> <<>>,
                         params |-> <<>>, return_type |-> None, body |-> <<>>,
                         effectful |-> FALSE, line |-> line, brace_depth |-> 0]]
    IN  IF Kind(q2) = "OpenBrace"
        THEN [advance(q2) EXCEPT !.fn.brace_depth = 1, !.pc = "exegesis_body"]
        ELSE exegesis_finish(q2)

\* The text pushed to an exegesis content for one token.
exegesis_body_text(q) ==
    LET t == q.current_token
        content == q.fn.body
    IN  CASE t.kind = "OpenBrace" -> <<"{">>
          [] t.kind = "CloseBrace" -> IF q.fn.brace_depth - 1 > 0 THEN <<"}">> ELSE <<>>
          [] t.kind = "Identifier" ->
                IF Len(content) > 0 /\ content[Len(content)] \notin {"\n", " "}
                THEN <<" ">> \o t.text
                ELSE t.text
          [] t.kind = "Newline" -> <<"\n">>
          [] OTHER -> <<" ">>

\* One iteration of the body loop of parse_exegesis.
exegesis_body_iter(q) ==
    advance([q EXCEPT !.fn.body = @ \o exegesis_body_text(q),
                      !.fn.brace_depth = DepthAfter(q)])

\* parse_sex with the `sex` keyword left unconsumed.
parse_sex_keeps_keyword(q) ==
    LET q1 == skip_newlines(q)
    IN  IF Kind(q1) = "Fun"
        THEN parse_function(q1, TRUE)
        ELSE add_error(q1, "Expected 'fun' after 'sex'", "SyntaxError")

\* parse_sex passing effectful = false.
parse_sex_pure(q) ==
    LET q1 == skip_newlines(advance(q))
    IN  IF Kind(q1) = "Fun"
        THEN parse_function(q1, FALSE)
        ELSE add_error(q1, "Expected 'fun' after 'sex'", "SyntaxError")

\* parse_sex consuming the token that is not `fun` after reporting it.
parse_sex_consumes_offender(q) ==
    LET q1 == skip_newlines(advance(q))
    IN  IF Kind(q1) = "Fun"
        THEN parse_function(q1, TRUE)
        ELSE advance(add_error(q1, "Expected 'fun' after 'sex'", "SyntaxError"))

\* `sex` in parse and in parse_body: an effectful function, or an error.
parse_sex(q) ==
    LET q1 == skip_newlines(advance(q))
    IN  IF Kind(q1) = "Fun"
        THEN parse_function(q1, TRUE)
        ELSE add_error(q1, "Expected 'fun' after 'sex'", "SyntaxError")

\* parse_body reporting the tokens that start no member.
parse_body_iter_reports_unknown(q0) ==
    LET q == skip_newlines(q0)
        k == Kind(q)
    IN  CASE k = "Eof" ->
                block_finish(add_error(q, "Unexpected end of file, unclosed block",
                                       "SyntaxError"))
          [] k = "OpenBrace" -> advance([q EXCEPT !.blk.brace_depth = @ + 1])
          [] k = "CloseBrace" -> advance([q EXCEPT !.blk.brace_depth = @ - 1])
          [] k = "Fun" -> parse_function(q, FALSE)
          [] k = "Sex" -> parse_sex(q)
          [] k = "Has" -> parse_field(q)
          [] k = "Constraint" -> parse_constraint(q)
          [] k = "Exegesis" -> parse_exegesis(q)
          [] k = "Pub" -> advance(q)
          [] k = "Comment" ->
                advance([q EXCEPT !.blk.body = Append(@,
                    [type |-> "Comment", content |-> q.current_token.text,
                     line |-> q.current_line])])
          [] OTHER -> advance(add_error(q, "Unexpected token", "SyntaxError"))

\* One iteration of the loop of parse_body.
parse_body_iter(q0) ==
    LET q == skip_newlines(q0)
        k == Kind(q)
    IN  CASE k = "Eof" ->
                block_finish(add_error(q, "Unexpected end of file, unclosed block",
                                       "SyntaxError"))
          [] k = "OpenBrace" -> advance([q EXCEPT !.blk.brace_depth = @ + 1])
          [] k = "CloseBrace" -> advance([q EXCEPT !.blk.brace_depth = @ - 1])
          [] k = "Fun" -> parse_function(q, FALSE)
          [] k = "Sex" -> parse_sex(q)
          [] k = "Has" -> parse_field(q)
          [] k = "Constraint" -> parse_constraint(q)
          [] k = "Exegesis" -> parse_exegesis(q)
          [] k = "Pub" -> advance(q)
          [] k = "Comment" ->
                advance([q EXCEPT !.blk.body = Append(@,
                    [type |-> "Comment", content |-> q.current_token.text,
                     line |-> q.current_line])])
          [] OTHER -> advance(q)

\* The warning pushed by parse: the format! string's two arguments.
Warning(content, line) ==
    [message |-> "Warning: Unexpected identifier", content |-> content, line |-> line]

\* The loop of parse warning about every token of its default arm.
parse_iter_warns_all(q0) ==
    LET q == skip_newlines(q0)
        k == Kind(q)
    IN  CASE k = "Eof" -> [q EXCEPT !.pc = "done"]
          [] k = "Spirit" -> parse_spirit(q)
          [] k = "Gene" -> parse_gene(q)
          [] k = "Comment" ->
                advance([q EXCEPT !.nodes = Append(@,
                    [type |-> "Comment", content |-> q.current_token.text,
                     line |-> q.current_line])])
          [] k = "Exegesis" -> parse_exegesis(q)
          [] k = "Pub" -> advance(q)
          [] k = "Fun" -> parse_function(q, FALSE)
          [] k = "Sex" -> parse_sex(q)
          [] OTHER ->
                advance([q EXCEPT !.warnings = Append(@,
                    Warning(q.current_token.text, q.current_line))])

\* The loop of parse with an arm that parses a top-level `has` as a field.
parse_iter_dispatches_has(q0) ==
    LET q == skip_newlines(q0)
        k == Kind(q)
    IN  CASE k = "Eof" -> [q EXCEPT !.pc = "done"]
          [] k = "Spirit" -> parse_spirit(q)
          [] k = "Gene" -> parse_gene(q)
          [] k = "Comment" ->
                advance([q EXCEPT !.nodes = Append(@,
                    [type |-> "Comment", content |-> q.current_token.text,
                     line |-> q.current_line])])
          [] k = "Exegesis" -> parse_exegesis(q)
          [] k = "Pub" -> advance(q)
          [] k = "Fun" -> parse_function(q, FALSE)
          [] k = "Sex" -> parse_sex(q)
          [] k = "Has" -> parse_field(q)
          [] k = "Identifier" ->
                advance([q EXCEPT !.warnings = Append(@,
                    Warning(q.current_token.text, q.current_line))])
          [] OTHER -> advance(q)

\* One iteration of the loop of parse.
parse_iter(q0) ==
    LET q == skip_newlines(q0)
        k == Kind(q)
    IN  CASE k = "Eof" -> [q EXCEPT !.pc = "done"]
          [] k = "Spirit" -> parse_spirit(q)
          [] k = "Gene" -> parse_gene(q)
          [] k = "Comment" ->
                advance([q EXCEPT !.nodes = Append(@,
                    [type |-> "Comment", content |-> q.current_token.text,
                     line |-> q.current_line])])
          [] k = "Exegesis" -> parse_exegesis(q)
          [] k = "Pub" -> advance(q)
          [] k = "Fun" -> parse_function(q, FALSE)
          [] k = "Sex" -> parse_sex(q)
          [] k = "Identifier" ->
                advance([q EXCEPT !.warnings = Append(@,
                    Warning(q.current_token.text, q.current_line))])
          [] OTHER -> advance(q)

\* The condition of the loop the parser is in.
LoopCond(q) ==
    CASE q.pc = "params" -> Kind(q) # "CloseParen" /\ Kind(q) # "Eof"
      [] q.pc \in {"function_body", "constraint_body", "exegesis_body"} ->
            q.fn.brace_depth > 0 /\ Kind(q) # "Eof"
      [] q.pc = "parse_body" -> q.blk.brace_depth > 0
      [] OTHER -> TRUE

\* The code run when the loop the parser is in ends.
LoopExit(q) ==
    CASE q.pc = "params" -> params_exit(q)
      [] q.pc = "function_body" -> function_finish(q)
      [] q.pc = "constraint_body" -> constraint_finish(q)
      [] q.pc = "exegesis_body" -> exegesis_finish(q)
      [] OTHER -> block_finish(q)

\* Runs the parser to the head of the next loop iteration it executes.
RECURSIVE ToLoopHead(_)
ToLoopHead(q) == IF LoopCond(q) THEN q ELSE ToLoopHead(LoopExit(q))

\* One loop iteration of the parser, whichever loop it is in.
ParserStep(q) ==
    CASE q.pc = "parse" -> ToLoopHead(parse_iter(q))
      [] q.pc = "parse_body" -> ToLoopHead(parse_body_iter(q))
      [] q.pc = "params" -> ToLoopHead(params_iter(q))
      [] q.pc = "function_body" -> ToLoopHead(function_body_iter(q))
      [] q.pc = "constraint_body" -> ToLoopHead(constraint_body_iter(q))
      [] q.pc = "exegesis_body" -> ToLoopHead(exegesis_body_iter(q))
      [] OTHER -> q

\* Parser::parse from a parser at a loop head to its return.
RECURSIVE parse(_)
parse(q) == IF q.pc = "done" THEN q ELSE parse(ParserStep(q))

(***************************************************************************)
(* compile_dol and validate_dol                                            *)
(***************************************************************************)
\* The count of a node kind that also looks into the bodies of spirits and genes.
RECURSIVE CountType_nested(_, _)
CountType_nested(ast, type) ==
    IF ast = <<>> THEN 0
    ELSE LET n == Head(ast)
         IN  (IF n.type = type THEN 1 ELSE 0)
             + (IF n.type \in {"Spirit", "Gene"}
                THEN Cardinality({i \in 1..Len(n.body) : n.body[i].type = type})
                ELSE 0)
             + CountType_nested(Tail(ast), type)

CountType(ast, type) == Cardinality({i \in 1..Len(ast) : ast[i].type = type})

\* str::lines().count()
source_lines(src) ==
    Cardinality({i \in 1..Len(src) : src[i] = "\n"})
    + (IF Len(src) > 0 /\ src[Len(src)] # "\n" THEN 1 ELSE 0)

\* CompileResult with success also requiring that there are no warnings.
CompileResult_warnings_fail(src, brackets, parser) ==
    LET all_errors == brackets \o parser.errors
        ast == parser.nodes
    IN  [success |-> all_errors = <<>> /\ parser.warnings = <<>>,
         ast |-> ast,
         errors |-> all_errors,
         warnings |-> parser.warnings,
         metadata |-> [version |-> "0.7.0",
                       spirit_count |-> CountType(ast, "Spirit"),
                       gene_count |-> CountType(ast, "Gene"),
                       function_count |-> CountType(ast, "Function"),
                       field_count |-> CountType(ast, "Field"),
                       constraint_count |-> CountType(ast, "Constraint"),
                       source_lines |-> source_lines(src)]]

\* CompileResult with the parser's errors put before the bracket errors.
CompileResult_parser_first(src, brackets, parser) ==
    LET all_errors == parser.errors \o brackets
        ast == parser.nodes
    IN  [success |-> all_errors = <<>>,
         ast |-> ast,
         errors |-> all_errors,
         warnings |-> parser.warnings,
         metadata |-> [version |-> "0.7.0",
                       spirit_count |-> CountType(ast, "Spirit"),
                       gene_count |-> CountType(ast, "Gene"),
                       function_count |-> CountType(ast, "Function"),
                       field_count |-> CountType(ast, "Field"),
                       constraint_count |-> CountType(ast, "Constraint"),
                       source_lines |-> source_lines(src)]]

\* compile_dol after parser.parse(): the CompileResult.
CompileResult(src, brackets, parser) ==
    LET all_errors == brackets \o parser.errors
        ast == parser.nodes
    IN  [success |-> all_errors = <<>>,
         ast |-> ast,
         errors |-> all_errors,
         warnings |-> parser.warnings,
         metadata |-> [version |-> "0.7.0",
                       spirit_count |-> CountType(ast, "Spirit"),
                       gene_count |-> CountType(ast, "Gene"),
                       function_count |-> CountType(ast, "Function"),
                       field_count |-> CountType(ast, "Field"),
                       constraint_count |-> CountType(ast, "Constraint"),
                       source_lines |-> source_lines(src)]]

\* validate_dol without the early return on bracket errors.
validate_dol_parse_only(src) ==
    parse(ToLoopHead(Parser_new(src))).errors = <<>>

validate_dol(src) ==
    IF validate_brackets(src) # <<>>
    THEN FALSE
    ELSE parse(ToLoopHead(Parser_new(src))).errors = <<>>

(***************************************************************************)
(* The inputs.  A source of the compile/validate runs is the concatenation *)
(* of at most MaxFrags fragments.                                          *)
(***************************************************************************)
Fragments ==
    { <<"g", "e", "n", "e", " ", "a", "{">>,
      <<"g", "e", "n", "e", " ">>,
      <<"s", "p", "i", "r", "i", "t", " ">>,
      <<"f", "u", "n", " ", "f", "(", "x", ")", "{", "}">>,
      <<"f", "u", "n", " ">>,
      <<"f", "u", "n", " ", "g", "{">>,
      <<"s", "e", "x", " ">>,
      <<"h", "a", "s", " ">>,
      <<"c", "o", "n", "s", "t", "r", "a", "i", "n", "t", " ", "c", "{">>,
      <<"c", "o", "n", "s", "t", "r", "a", "i", "n", "t", " ">>,
      <<"e", "x", "e", "g", "e", "s", "i", "s", "{">>,
      <<"x", " ">>,
      <<"{">>,
      <<"}">>,
      <<"\n">>,
      <<"#", "\"">>,
      <<"/", "*">> }

RECURSIVE Concats(_)
Concats(n) ==
    IF n = 0 THEN {<<>>}
    ELSE LET S == Concats(n - 1) IN S \cup {s \o f : s \in S, f \in Fragments}

Sources == Concats(MaxFrags)

\* The sources of the member runs: the opening of a spirit, a field, a
\* function or a raw body, followed by at most MaxToks of the tokens that
\* matter after it.
RECURSIVE ConcatsOf(_, _)
ConcatsOf(frags, n) ==
    IF n = 0 THEN {<<>>}
    ELSE LET S == ConcatsOf(frags, n - 1) IN S \cup {s \o f : s \in S, f \in frags}

SpiritLead == <<"s", "p", "i", "r", "i", "t", " ", "s">>
SpiritToks == { <<"@", "1", ".", "0">>, <<"@">>, <<"\n">>, <<"{">>, <<"}">> }

FieldLead == <<"g", "e", "n", "e", " ", "a", "{", "h", "a", "s", " ", "n">>
FieldToks ==
    { <<":">>, <<" ", "T">>, <<"=">>, <<" ", "1">>, <<"\"", "s", "\"">>, <<"\n">>, <<"{">> }

ParamsLead == <<"f", "u", "n", " ", "f", "(">>
ParamsToks == { <<" ", "x">>, <<":">>, <<" ", "T">>, <<",">>, <<")">>, <<"\n">>, <<"1">> }

ReturnLead == <<"f", "u", "n", " ", "f", "(", "x", ")">>
ReturnToks == { <<"-", ">">>, <<" ", "T">>, <<"\n">>, <<"{">>, <<"}">> }

FunctionBodyLead == <<"f", "u", "n", " ", "g", "{">>
ConstraintBodyLead ==
    <<"g", "e", "n", "e", " ", "a", "{",
      "c", "o", "n", "s", "t", "r", "a", "i", "n", "t", " ", "c", "{">>
ExegesisBodyLead == <<"e", "x", "e", "g", "e", "s", "i", "s", "{">>
BodyToks == { <<"{">>, <<"}">>, <<" ", "x">>, <<"\n">>, <<"=">> }

MemberSources ==
    {SpiritLead \o t : t \in ConcatsOf(SpiritToks, MaxToks)}
    \cup {FieldLead \o t : t \in ConcatsOf(FieldToks, MaxToks)}
    \cup {ParamsLead \o t : t \in ConcatsOf(ParamsToks, MaxToks)}
    \cup {ReturnLead \o t : t \in ConcatsOf(ReturnToks, MaxToks)}
    \cup {l \o t : l \in {FunctionBodyLead, ConstraintBodyLead, ExegesisBodyLead},
                     t \in ConcatsOf(BodyToks, MaxToks)}

\* The characters fed to the character-level scan of validate_brackets.
ScanChars == {"{", "}", "(", ")", "\"", "'", "\\", "\n", "/", "*"}

(***************************************************************************)
(* The run of compile_dol(source) followed by validate_dol(source).        *)
(***************************************************************************)
NoParser == [Parser_new(<<>>) EXCEPT !.pc = "none"]

\* No Lexer is driven directly.
NoToken == <<>>
LexerIdle == lexing = Lexer_new(<<>>) /\ returned = NoToken /\ eof_calls = 0
NoResult == CompileResult(<<>>, <<>>, NoParser)

Init ==
    /\ source \in Sources
    /\ pc = "start"
    /\ bv = BvInit
    /\ p = NoParser
    /\ bracket_errors = <<>>
    /\ result = NoResult
    /\ valid = FALSE
    /\ LexerIdle

\* compile_dol: validate_brackets(source) and Parser::new(source).
CompileBegin ==
    /\ pc = "start"
    /\ bracket_errors' = validate_brackets(source)
    /\ p' = ToLoopHead(Parser_new(source))
    /\ pc' = "parsing"
    /\ UNCHANGED <<source, bv, result, valid, lexvars>>

ParserAt(loop) == pc = "parsing" /\ p.pc = loop
ParserFrame == UNCHANGED <<source, pc, bv, bracket_errors, result, valid, lexvars>>

ParseIter ==
    /\ ParserAt("parse")
    /\ p' = ToLoopHead(parse_iter(p))
    /\ ParserFrame

ParseBodyIter ==
    /\ ParserAt("parse_body")
    /\ p' = ToLoopHead(parse_body_iter(p))
    /\ ParserFrame

ParamsIter ==
    /\ ParserAt("params")
    /\ p' = ToLoopHead(params_iter(p))
    /\ ParserFrame

FunctionBodyIter ==
    /\ ParserAt("function_body")
    /\ p' = ToLoopHead(function_body_iter(p))
    /\ ParserFrame

ConstraintBodyIter ==
    /\ ParserAt("constraint_body")
    /\ p' = ToLoopHead(constraint_body_iter(p))
    /\ ParserFrame

ExegesisBodyIter ==
    /\ ParserAt("exegesis_body")
    /\ p' = ToLoopHead(exegesis_body_iter(p))
    /\ ParserFrame

\* compile_dol after parser.parse() has returned.
CompileFinish ==
    /\ ParserAt("done")
    /\ result' = CompileResult(source, bracket_errors, p)
    /\ pc' = "compiled"
    /\ UNCHANGED <<source, bv, p, bracket_errors, valid, lexvars>>

ValidateDol ==
    /\ pc = "compiled"
    /\ valid' = validate_dol(source)
    /\ pc' = "done"
    /\ UNCHANGED <<source, bv, p, bracket_errors, result, lexvars>>

Next ==
    \/ CompileBegin
    \/ ParseIter
    \/ ParseBodyIter
    \/ ParamsIter
    \/ FunctionBodyIter
    \/ ConstraintBodyIter
    \/ ExegesisBodyIter
    \/ CompileFinish
    \/ ValidateDol

Spec == Init /\ [][Next]_vars

\* The same run on the sources of the member runs.
InitMembers ==
    /\ source \in MemberSources
    /\ pc = "start"
    /\ bv = BvInit
    /\ p = NoParser
    /\ bracket_errors = <<>>
    /\ result = NoResult
    /\ valid = FALSE
    /\ LexerIdle

SpecMembers == InitMembers /\ [][Next]_vars

(***************************************************************************)
(* The scan of validate_brackets, character by character: the iterator     *)
(* source.chars() yields one more character of ScanChars, or ends.         *)
(***************************************************************************)
InitBrackets ==
    /\ source = <<>>
    /\ pc = "scan"
    /\ bv = BvInit
    /\ p = NoParser
    /\ bracket_errors = <<>>
    /\ result = NoResult
    /\ valid = FALSE
    /\ LexerIdle

BracketChar ==
    /\ pc = "scan"
    /\ Len(source) < MaxScan
    /\ \E c \in ScanChars :
          /\ source' = Append(source, c)
          /\ bv' = bracket_step(bv, c)
    /\ UNCHANGED <<pc, p, bracket_errors, result, valid, lexvars>>

BracketEnd ==
    /\ pc = "scan"
    /\ bv' = bracket_finish(bv)
    /\ bracket_errors' = bracket_finish(bv).errors
    /\ pc' = "scanned"
    /\ UNCHANGED <<source, p, result, valid, lexvars>>

NextBrackets == BracketChar \/ BracketEnd

SpecBrackets == InitBrackets /\ [][NextBrackets]_vars

\* The characters of the sources whose tokens are pulled one by one.
LexChars == {"-", "=", "|", ">", " ", "\n", "x", "\"", "/"}
LexSources == ConcatsOf({<<c>> : c \in LexChars}, MaxLex)

\* Lexer::new(source)
InitLexer ==
    /\ source \in LexSources
    /\ pc = "lex"
    /\ bv = BvInit
    /\ p = NoParser
    /\ bracket_errors = <<>>
    /\ result = NoResult
    /\ valid = FALSE
    /\ lexing = Lexer_new(source)
    /\ returned = NoToken
    /\ eof_calls = 0

AtEof == returned # NoToken /\ returned[1].token.kind = "Eof"

\* One call of next_token.
NextToken ==
    /\ pc = "lex"
    /\ AtEof => eof_calls < MaxEofCalls
    /\ LET r == next_token(lexing)
       IN  /\ lexing' = r.lexer
           /\ returned' = <<[token |-> r.token, line |-> r.line, column |-> r.column]>>
           /\ eof_calls' = IF r.token.kind = "Eof" THEN eof_calls + 1 ELSE eof_calls
    /\ UNCHANGED <<source, pc, bv, p, bracket_errors, result, valid>>

NextLexer == NextToken

SpecLexer == InitLexer /\ [][NextLexer]_vars

(***************************************************************************)
(* Helpers of the properties.                                              *)
(***************************************************************************)
\* A source written as the fragments it is made of.
Src3(f1, f2, f3) == f1 \o f2 \o f3

FragGeneA == <<"g", "e", "n", "e", " ", "a", "{">>
FragGene == <<"g", "e", "n", "e", " ">>
FragFunF == <<"f", "u", "n", " ", "f", "(", "x", ")", "{", "}">>
FragFun == <<"f", "u", "n", " ">>
FragFunG == <<"f", "u", "n", " ", "g", "{">>
FragSex == <<"s", "e", "x", " ">>
FragX == <<"x", " ">>

\* The tokens the parser has not consumed yet, the current one included.
Remaining(q) ==
    (Len(q.lexer.run) - q.lexer.next) + (IF Kind(q) = "Eof" THEN 0 ELSE 1)

\* The nesting of the parser's loops: parse, parse_body within it, and the
\* loops of a member within either.
LoopRank(loop) ==
    CASE loop = "done" -> 0
      [] loop = "parse" -> 1
      [] loop = "parse_body" -> 2
      [] OTHER -> 3

\* A step of the parser within compile_dol.
ParserMoves == pc = "parsing" /\ pc' = "parsing"

\* The guard of some action of Next holds.
CanStep ==
    \/ pc \in {"start", "compiled"}
    \/ /\ pc = "parsing"
       /\ p.pc \in {"parse", "parse_body", "params", "function_body",
                    "constraint_body", "exegesis_body", "done"}

(***************************************************************************)
(* C1.  Parser::parse terminates on every source: every iteration of the   *)
(* top-level loop, the block-body loop, the parameter loop and the         *)
(* function / constraint / exegesis body loops consumes at least one token *)
(* or stops at Eof (leaving its loop for an enclosing one), and the run of *)
(* compile_dol and validate_dol never stops before both have returned.     *)
(***************************************************************************)
C1_ParseTerminates ==
    /\ [][ParserMoves =>
            \/ Remaining(p') < Remaining(p)
            \/ /\ Kind(p') = "Eof"
               /\ LoopRank(p'.pc) < LoopRank(p.pc)]_vars
    /\ [](pc # "done" => CanStep)

\* An unterminated block holding an unknown character and an unterminated
\* string, compiled and validated to the end.
C1_Witness ==
    /\ pc = "done"
    /\ source = Src3(FragGeneA, <<"#", "\"">>, <<"/", "*">>)
    /\ Len(result.ast) = 1
    /\ Len(p.errors) = 1
    /\ ~valid

(***************************************************************************)
(* C2.  validate_dol(s) is true exactly when compile_dol(s) has success =  *)
(* true: both are true iff validate_brackets(s) returns no errors and the  *)
(* parse of s records no parser errors.                                    *)
(***************************************************************************)
C2_ValidateMatchesCompile ==
    pc = "done" =>
        /\ valid = result.success
        /\ valid = (bracket_errors = <<>> /\ p.errors = <<>>)

\* A closed gene: valid, and compiled with success.
C2_Witness ==
    /\ pc = "done"
    /\ source = FragGeneA \o <<"}">>
    /\ valid
    /\ result.success
    /\ Len(result.ast) = 1

(***************************************************************************)
(* C3.  In every CompileResult, success is true iff the bracket errors     *)
(* followed by the parser errors make an empty list; warnings do not count.*)
(***************************************************************************)
C3_SuccessIffNoErrors ==
    pc \in {"compiled", "done"} =>
        /\ result.errors = bracket_errors \o p.errors
        /\ result.success = (Len(bracket_errors) + Len(p.errors) = 0)
        /\ result.warnings = p.warnings

\* Unexpected top-level identifiers only: warnings, no error, success.
C3_Witness ==
    /\ pc = "compiled"
    /\ source = FragX \o FragX
    /\ Len(result.warnings) = 2
    /\ result.errors = <<>>
    /\ result.success

(***************************************************************************)
(* Helpers of the properties of validate_brackets.                         *)
(***************************************************************************)
\* The 1-based line and column of the i-th character of a text.
PosLine(src, i) == 1 + Cardinality({j \in 1..(i - 1) : src[j] = "\n"})
PosCol(src, i) ==
    LET breaks == {j \in 1..(i - 1) : src[j] = "\n"}
    IN  i - (IF breaks = {} THEN 0 ELSE CHOOSE j \in breaks : \A k \in breaks : k <= j)

\* The tokens of the given kinds the lexer emits for a text, in order.
TokensOfKinds(src, kinds) ==
    LET IsOne(r) == r.token.kind \in kinds
    IN  SelectSeq(LexerRun(Lexer_new(src)), IsOne)

\* The lexer finds no comment in the text.
CommentFree(src) == TokensOfKinds(src, {"Comment"}) = <<>>

CountKind(toks, from, to, kind) ==
    Cardinality({j \in from..to : toks[j].token.kind = kind})

\* The positions of the openers among the lexer's tokens that no later closer
\* matches: no stretch after the opener closes more than it opens.
LexUnmatched(src, open, close) ==
    LET toks == TokensOfKinds(src, {open, close})
    IN  {<<toks[i].line, toks[i].column>> : i \in
            {i \in 1..Len(toks) :
                /\ toks[i].token.kind = open
                /\ \A j \in (i + 1)..Len(toks) :
                      CountKind(toks, i + 1, j, close) <= CountKind(toks, i + 1, j, open)}}

\* The lexer's tokens of the two kinds are balanced.
LexBalanced(src, open, close) ==
    LET toks == TokensOfKinds(src, {open, close})
    IN  /\ \A j \in 1..Len(toks) :
              CountKind(toks, 1, j, close) <= CountKind(toks, 1, j, open)
        /\ CountKind(toks, 1, Len(toks), close) = CountKind(toks, 1, Len(toks), open)

\* The errors with a given message, and their positions.
ErrorsWith(errors, message) ==
    LET Is(e) == e.message = message
    IN  SelectSeq(errors, Is)
PositionsOf(errors) == {<<errors[i].line, errors[i].column>> : i \in 1..Len(errors)}

\* The character read by the step of the scan, and its index.
ScanStep == pc = "scan" /\ pc' = "scan" /\ Len(source') = Len(source) + 1
ScanIdx == Len(source')
ScanChar == source'[Len(source')]

\* A step of the scan in which the character was pushed, popped or reported.
Handled ==
    \/ bv'.brace_stack # bv.brace_stack
    \/ bv'.paren_stack # bv.paren_stack
    \/ bv'.errors # bv.errors

(***************************************************************************)
(* C4.  validate_brackets emits exactly one "Unclosed brace" error per '{' *)
(* outside string literals that is unmatched at the end of the scan, at    *)
(* the position of that '{'; likewise one "Unclosed parenthesis" error per *)
(* unmatched '('; and no error at all for a balanced source.  The string   *)
(* literals are those of the language, as the lexer delimits them; the     *)
(* sources with a comment, whose brackets the lexer does not deliver, are  *)
(* left aside.                                                             *)
(***************************************************************************)
C4_UnclosedPerUnmatchedOpener ==
    (pc = "scanned" /\ CommentFree(source)) =>
        LET braces == ErrorsWith(bv.errors, "Unclosed brace '{'")
            parens == ErrorsWith(bv.errors, "Unclosed parenthesis '('")
        IN  /\ PositionsOf(braces) = LexUnmatched(source, "OpenBrace", "CloseBrace")
            /\ Len(braces) = Cardinality(LexUnmatched(source, "OpenBrace", "CloseBrace"))
            /\ PositionsOf(parens) = LexUnmatched(source, "OpenParen", "CloseParen")
            /\ Len(parens) = Cardinality(LexUnmatched(source, "OpenParen", "CloseParen"))
            /\ (LexBalanced(source, "OpenBrace", "CloseBrace")
                /\ LexBalanced(source, "OpenParen", "CloseParen")
                => bv.errors = <<>>)

(***************************************************************************)
(* C5.  In validate_brackets, a '}' (resp. ')') read while the scan is     *)
(* outside a string literal and the brace (resp. paren) stack is empty     *)
(* adds exactly one "Unexpected closing" BracketError at the line and      *)
(* column of that character, leaves both stacks unchanged, and the scan    *)
(* goes on with the next character.                                        *)
(***************************************************************************)
C5_UnexpectedCloser ==
    [][(/\ ScanStep
        /\ ~bv.in_string
        /\ \/ ScanChar = "}" /\ bv.brace_stack = <<>>
           \/ ScanChar = ")" /\ bv.paren_stack = <<>>)
       =>
       (/\ bv'.errors = Append(bv.errors, CompileError(
              IF ScanChar = "}" THEN "Unexpected closing brace '}'"
                                ELSE "Unexpected closing parenthesis ')'",
              PosLine(source', ScanIdx), PosCol(source', ScanIdx), "BracketError"))
        /\ bv'.brace_stack = bv.brace_stack
        /\ bv'.paren_stack = bv.paren_stack
        /\ ~bv'.in_string
        /\ bv'.line = PosLine(source', ScanIdx)
        /\ bv'.column = PosCol(source', ScanIdx) + 1)]_vars

\* A ')' on the second line with nothing open, reported, and the '{' after it
\* pushed.
C5_Witness ==
    /\ pc = "scan"
    /\ source = <<"\n", ")", "{">>
    /\ bv.errors = <<CompileError("Unexpected closing parenthesis ')'", 2, 1, "BracketError")>>
    /\ bv.brace_stack = <<<<"{", 2, 2>>>>
    /\ bv.paren_stack = <<>>

(***************************************************************************)
(* C6.  On a comment-free source the bracket validator and the lexer agree *)
(* on string literals: validate_brackets pushes, pops or reports a '{',    *)
(* '}', '(' or ')' exactly when the lexer emits that character as a        *)
(* structural token, also after strings that hold escaped backslashes or a *)
(* backslash followed by a newline.                                        *)
(***************************************************************************)
C6_ValidatorAgreesWithLexer ==
    [][(ScanStep /\ ScanChar \in {"{", "}", "(", ")"} /\ CommentFree(source'))
       =>
       (Handled <=>
           <<PosLine(source', ScanIdx), PosCol(source', ScanIdx)>> \in
               PositionsOf(TokensOfKinds(source', {SingleCharKind(ScanChar)})))]_vars

(***************************************************************************)
(* Helpers of the properties of the parser.                                *)
(***************************************************************************)
\* The parser after the current token and the newlines that follow it.
After(q) == skip_newlines(advance(q))

\* The token kinds parse_body gives a meaning to.
BodyKinds ==
    {"Fun", "Sex", "Has", "Constraint", "Exegesis", "Pub", "Comment",
     "OpenBrace", "CloseBrace", "Eof"}

(***************************************************************************)
(* C7.  Inside a spirit or gene body a token that starts no recognised     *)
(* member (not fun, sex, has, constraint, exegesis, pub, a comment or a    *)
(* brace) is skipped: no error, no warning, the body and the nodes as they *)
(* were, and the body loop goes on with the next token, so the members     *)
(* that follow are still parsed into the same body.                        *)
(***************************************************************************)
C7_UnknownBodyTokenSkipped ==
    [][(/\ ParserMoves
        /\ p.pc = "parse_body"
        /\ Kind(skip_newlines(p)) \notin BodyKinds)
       =>
       (/\ p'.errors = p.errors
        /\ p'.warnings = p.warnings
        /\ p'.nodes = p.nodes
        /\ p'.blk = p.blk
        /\ p'.fn = p.fn
        /\ p'.pc = "parse_body"
        /\ p'.lexer = advance(skip_newlines(p)).lexer
        /\ Remaining(p') < Remaining(p))]_vars

\* In `gene a{x fun f(x){}` the identifier x has been skipped and the function
\* after it is in the body of the gene, with no error and no warning.
C7_Witness ==
    /\ pc = "parsing"
    /\ source = Src3(FragGeneA, FragX, FragFunF)
    /\ p.pc = "parse_body"
    /\ p.blk.name = <<"a">>
    /\ Len(p.blk.body) = 1
    /\ p.blk.body[1].type = "Function"
    /\ p.blk.body[1].name = <<"f">>
    /\ p.errors = <<>>
    /\ p.warnings = <<>>

\* The parser at the keyword of the construct the iteration starts: after a
\* `sex` it is the `fun` that follows.
AtKeyword(q0) ==
    LET q == skip_newlines(q0)
    IN  IF Kind(q) = "Sex" /\ Kind(After(q)) = "Fun" THEN After(q) ELSE q

\* The keywords that require an identifier, in parse and in parse_body.
NamedKinds(loop) ==
    IF loop = "parse" THEN {"Spirit", "Gene", "Fun"}
    ELSE IF loop = "parse_body" THEN {"Fun", "Has", "Constraint"}
    ELSE {}

\* The parser at the token where the '{' of a spirit or gene is required.
AtBlockBrace(a) ==
    LET b == After(After(a))
    IN  IF Kind(a) = "Spirit" /\ Kind(b) = "Version" THEN After(b) ELSE b

MissingIdentifier(q0) ==
    /\ Kind(AtKeyword(q0)) \in NamedKinds(q0.pc)
    /\ Kind(After(AtKeyword(q0))) # "Identifier"

MissingBlockBrace(q0) ==
    /\ q0.pc = "parse"
    /\ Kind(AtKeyword(q0)) \in {"Spirit", "Gene"}
    /\ Kind(After(AtKeyword(q0))) = "Identifier"
    /\ Kind(AtBlockBrace(AtKeyword(q0))) # "OpenBrace"

\* The parser at the offending token, and the message of its error.
Offender(q0) ==
    IF MissingIdentifier(q0) THEN After(AtKeyword(q0))
    ELSE AtBlockBrace(AtKeyword(q0))

MissingMessage(q0) ==
    IF MissingIdentifier(q0) THEN "Expected identifier"
    ELSE IF Kind(AtKeyword(q0)) = "Spirit" THEN "Expected '{' after spirit name"
    ELSE "Expected '{' after gene name"

(***************************************************************************)
(* C8.  A missing required token (no identifier after spirit, gene, fun,   *)
(* has or constraint; no '{' after a spirit or gene name) records exactly  *)
(* one SyntaxError at the line and column of the offending token, builds   *)
(* no node, leaves the offending token as the current one, and the parser  *)
(* stays in the loop it was in.                                            *)
(***************************************************************************)
C8_MissingTokenOneError ==
    [][(ParserMoves /\ (MissingIdentifier(p) \/ MissingBlockBrace(p)))
       =>
       (/\ p'.errors = Append(p.errors, CompileError(
              MissingMessage(p), Offender(p).current_line,
              Offender(p).current_column, "SyntaxError"))
        /\ p'.warnings = p.warnings
        /\ p'.nodes = p.nodes
        /\ p'.blk = p.blk
        /\ p'.fn = p.fn
        /\ p'.current_token = Offender(p).current_token
        /\ p'.lexer = Offender(p).lexer
        /\ p'.pc = p.pc)]_vars

\* `gene {}`: one "Expected identifier" at the '{', no node, and the parse
\* went on to the end of the input.
C8_Witness ==
    /\ pc = "done"
    /\ source = Src3(FragGene, <<"{">>, <<"}">>)
    /\ result.ast = <<>>
    /\ result.errors = <<CompileError("Expected identifier", 1, 6, "SyntaxError")>>
    /\ ~result.success

\* One loop iteration of the parser, before the loops it ends are left.
Iteration(q) ==
    CASE q.pc = "parse" -> parse_iter(q)
      [] q.pc = "parse_body" -> parse_body_iter(q)
      [] q.pc = "params" -> params_iter(q)
      [] q.pc = "function_body" -> function_body_iter(q)
      [] q.pc = "constraint_body" -> constraint_body_iter(q)
      [] q.pc = "exegesis_body" -> exegesis_body_iter(q)
      [] OTHER -> q

\* Leaving its loops, the parser leaves a function body at Eof with a brace
\* still open.
RECURSIVE EndsInOpenFunction(_)
EndsInOpenFunction(q) ==
    /\ ~LoopCond(q)
    /\ \/ q.pc = "function_body" /\ Kind(q) = "Eof" /\ q.fn.brace_depth > 0
       \/ EndsInOpenFunction(LoopExit(q))

EndsInOpenBlock(q) == q.pc = "parse_body" /\ Kind(skip_newlines(q)) = "Eof"

(***************************************************************************)
(* C9.  When the input ends inside an unterminated spirit/gene block or an *)
(* unterminated function body, the parser records exactly one SyntaxError  *)
(* for it and consumes nothing further, for a function at top level as     *)
(* well as for one inside a block.                                         *)
(***************************************************************************)
C9_UnterminatedOneError ==
    [][(ParserMoves /\ (EndsInOpenBlock(p) \/ EndsInOpenFunction(Iteration(p))))
       =>
       (/\ Kind(p') = "Eof"
        /\ Len(parse(p').errors) = Len(p.errors) + 1
        /\ parse(p').errors[Len(p.errors) + 1].error_type = "SyntaxError"
        /\ parse(p').lexer = p'.lexer)]_vars

\* The effectful flags of the Function nodes of a body, in order.
BodyFlags(body) ==
    LET IsFunction(n) == n.type = "Function"
        fs == SelectSeq(body, IsFunction)
    IN  [i \in 1..Len(fs) |-> fs[i].effectful]

\* The effectful flags of the Function nodes built so far, in source order.
RECURSIVE NodeFlags(_)
NodeFlags(nodes) ==
    IF nodes = <<>> THEN <<>>
    ELSE LET n == Head(nodes)
         IN  (IF n.type \in {"Spirit", "Gene"} THEN BodyFlags(n.body)
              ELSE IF n.type = "Function" THEN <<n.effectful>>
              ELSE <<>>) \o NodeFlags(Tail(nodes))
AllFlags(q) == NodeFlags(q.nodes) \o BodyFlags(q.blk.body)

InFunction(q) == q.pc \in {"params", "function_body"}

\* The iteration starts a function: `fun` or `sex fun`, and its name.
StartsFunction(q) ==
    /\ q.pc \in {"parse", "parse_body"}
    /\ Kind(AtKeyword(q)) = "Fun"
    /\ Kind(After(AtKeyword(q))) = "Identifier"

\* The `fun` of the function the iteration works on came after a `sex`.
AfterSex(q) ==
    IF InFunction(q) THEN q.fn.effectful ELSE Kind(skip_newlines(q)) = "Sex"

(***************************************************************************)
(* C10.  A Function node has effectful = true iff its `fun` keyword came   *)
(* right after a `sex` keyword (newlines allowed in between), at top level *)
(* and inside a spirit/gene body alike.                                    *)
(***************************************************************************)
C10_EffectfulIffSexFun ==
    [][ParserMoves =>
        IF InFunction(p) \/ StartsFunction(p)
        THEN \/ /\ InFunction(p')
                /\ p'.fn.effectful = AfterSex(p)
                /\ AllFlags(p') = AllFlags(p)
             \/ /\ ~InFunction(p')
                /\ AllFlags(p') = Append(AllFlags(p), AfterSex(p))
        ELSE /\ ~InFunction(p')
             /\ AllFlags(p') = AllFlags(p)]_vars

\* `sex`, a newline, `fun f(x){}`: one Function node, effectful.
C10_Witness ==
    /\ pc = "done"
    /\ source = Src3(FragSex, <<"\n">>, FragFunF)
    /\ Len(result.ast) = 1
    /\ result.ast[1].type = "Function"
    /\ result.ast[1].name = <<"f">>
    /\ result.ast[1].line = 2
    /\ result.ast[1].effectful

(***************************************************************************)
(* Helpers of the properties of the members.                               *)
(***************************************************************************)
\* The index in a text of the character at a line and column.
IndexAt(src, line, column) ==
    CHOOSE i \in 1..(Len(src) + 1) : PosLine(src, i) = line /\ PosCol(src, i) = column

\* The longest run of characters of a set in a text, from index i on.
RunOf(src, i, chars) ==
    LET stops == {j \in i..(Len(src) + 1) : j > Len(src) \/ src[j] \notin chars}
    IN  SubSeq(src, i, (CHOOSE j \in stops : \A k \in stops : j <= k) - 1)

\* The text of a version literal read off the source: the digits and dots
\* after the '@' at the position of the token.
VersionText(q) ==
    RunOf(source, IndexAt(source, q.current_line, q.current_column) + 1,
          Digits \cup {"."})

\* The iteration of parse starts a spirit that has its name.
StartsSpirit(q) ==
    /\ q.pc = "parse"
    /\ Kind(skip_newlines(q)) = "Spirit"
    /\ Kind(After(skip_newlines(q))) = "Identifier"

\* The version the spirit is written with.
WrittenVersion(q) ==
    LET b == After(After(skip_newlines(q)))
    IN  IF Kind(b) = "Version" THEN Some(VersionText(b)) ELSE None

(***************************************************************************)
(* C11.  A Spirit node has version = Some(v) iff a version literal follows *)
(* the spirit name (newlines allowed in between), v being the digits and   *)
(* dots written after '@', without the '@'; otherwise version is None.  In *)
(* both cases the name is the identifier after `spirit`, a '{' is required *)
(* next, and the node built at the end of the body carries that name and   *)
(* version.                                                                *)
(***************************************************************************)
C11_SpiritVersion ==
    [][ParserMoves =>
        /\ StartsSpirit(p) =>
              IF Kind(AtBlockBrace(skip_newlines(p))) = "OpenBrace"
              THEN /\ p'.blk.active
                   /\ p'.blk.kind = "Spirit"
                   /\ p'.blk.name = After(skip_newlines(p)).current_token.text
                   /\ p'.blk.version = WrittenVersion(p)
                   /\ p'.lexer = advance(AtBlockBrace(skip_newlines(p))).lexer
                   /\ p'.nodes = p.nodes
                   /\ p'.errors = p.errors
              ELSE /\ ~p'.blk.active
                   /\ p'.nodes = p.nodes
                   /\ Len(p'.errors) = Len(p.errors) + 1
        /\ (p.blk.active /\ p.blk.kind = "Spirit") =>
              IF p'.blk.active
              THEN /\ p'.blk.name = p.blk.name
                   /\ p'.blk.version = p.blk.version
                   /\ p'.nodes = p.nodes
              ELSE /\ Len(p'.nodes) = Len(p.nodes) + 1
                   /\ SubSeq(p'.nodes, 1, Len(p.nodes)) = p.nodes
                   /\ p'.nodes[Len(p'.nodes)].type = "Spirit"
                   /\ p'.nodes[Len(p'.nodes)].name = p.blk.name
                   /\ p'.nodes[Len(p'.nodes)].version = p.blk.version]_vars

\* `spirit s`, a newline, `@1.0{}`: one Spirit node, named s, version 1.0.
C11_Witness ==
    /\ pc = "done"
    /\ source = SpiritLead \o <<"\n", "@", "1", ".", "0", "{", "}">>
    /\ Len(result.ast) = 1
    /\ result.ast[1].type = "Spirit"
    /\ result.ast[1].name = <<"s">>
    /\ result.ast[1].version = Some(<<"1", ".", "0">>)
    /\ result.success

\* The iteration of parse_body starts a field that has its name.
StartsField(q) ==
    /\ q.pc = "parse_body"
    /\ Kind(skip_newlines(q)) = "Has"
    /\ Kind(After(skip_newlines(q))) = "Identifier"

\* The parser at the name of the field, at the token after the name, and at
\* the token where the '=' of the default value may stand.
AtFieldName(q) == After(skip_newlines(q))
AfterFieldName(q) == After(AtFieldName(q))
FieldTyped(q) ==
    Kind(AfterFieldName(q)) = "Colon" /\ Kind(After(AfterFieldName(q))) = "Identifier"
AtFieldEquals(q) ==
    IF FieldTyped(q) THEN After(After(AfterFieldName(q)))
    ELSE IF Kind(AfterFieldName(q)) = "Colon" THEN After(AfterFieldName(q))
    ELSE AfterFieldName(q)

\* The field as it is written: its type, its default value, and the parser
\* after it.
WrittenType(q) ==
    IF FieldTyped(q) THEN After(AfterFieldName(q)).current_token.text
    ELSE <<"U", "n", "k", "n", "o", "w", "n">>
WrittenDefault(q) ==
    LET v == After(AtFieldEquals(q))
    IN  IF Kind(AtFieldEquals(q)) # "Equals" THEN None
        ELSE IF Kind(v) = "StringLiteral"
             THEN Some(<<"\"">> \o v.current_token.text \o <<"\"">>)
        ELSE IF Kind(v) \in {"NumberLiteral", "Identifier"}
             THEN Some(v.current_token.text)
        ELSE None
AfterField(q) ==
    IF Kind(AtFieldEquals(q)) # "Equals" THEN AtFieldEquals(q)
    ELSE IF WrittenDefault(q) # None THEN advance(After(AtFieldEquals(q)))
    ELSE After(AtFieldEquals(q))

(***************************************************************************)
(* C12.  For `has name[: Type][= value]` the Field node has field_type     *)
(* equal to the identifier after ':' and "Unknown" when the ':' is absent  *)
(* or not followed by an identifier; default_value is Some only when '='   *)
(* is followed by a string literal, a numeric literal or an identifier,    *)
(* and None, with no error recorded, for any other token after '='.        *)
(***************************************************************************)
C12_FieldTypeAndDefault ==
    [][(ParserMoves /\ StartsField(p))
       =>
       (/\ p'.blk.body = Append(p.blk.body,
              [type |-> "Field",
               name |-> AtFieldName(p).current_token.text,
               field_type |-> WrittenType(p),
               default_value |-> WrittenDefault(p),
               line |-> skip_newlines(p).current_line])
        /\ p'.errors = p.errors
        /\ p'.warnings = p.warnings
        /\ p'.nodes = p.nodes
        /\ p'.pc = "parse_body"
        /\ p'.lexer = AfterField(p).lexer
        /\ p'.current_token = AfterField(p).current_token)]_vars

\* `gene a{has n: T = 1`: the field n of type T with default 1.
C12_Witness ==
    /\ pc = "parsing"
    /\ source = FieldLead \o <<":", " ", "T", "=", " ", "1">>
    /\ p.pc = "parse_body"
    /\ p.errors = <<>>
    /\ p.blk.body =
          <<[type |-> "Field", name |-> <<"n">>, field_type |-> <<"T">>,
             default_value |-> Some(<<"1">>), line |-> 1]>>

\* `gene a{has n:=}`-like input: no type, no default, and no error for it.
C12_NoDefaultReached ==
    /\ pc = "parsing"
    /\ source = FieldLead \o <<":", "=", "{">>
    /\ p.pc = "parse_body"
    /\ p.blk.body =
          <<[type |-> "Field", name |-> <<"n">>,
             field_type |-> <<"U", "n", "k", "n", "o", "w", "n">>,
             default_value |-> None, line |-> 1]>>
    /\ p.errors = <<>>

\* The params and return_type of a function, in progress or as a node.
Sig(f) == [params |-> f.params, return_type |-> f.return_type]

BodySigs(body) ==
    LET IsFunction(n) == n.type = "Function"
        fs == SelectSeq(body, IsFunction)
    IN  [i \in 1..Len(fs) |-> Sig(fs[i])]

\* The signatures of the Function nodes built so far, in source order.
RECURSIVE NodeSigs(_)
NodeSigs(nodes) ==
    IF nodes = <<>> THEN <<>>
    ELSE LET n == Head(nodes)
         IN  (IF n.type \in {"Spirit", "Gene"} THEN BodySigs(n.body)
              ELSE IF n.type = "Function" THEN <<Sig(n)>>
              ELSE <<>>) \o NodeSigs(Tail(nodes))
AllSigs(q) == NodeSigs(q.nodes) \o BodySigs(q.blk.body)

\* The parser after the parameter entry it stands at: a name with its
\* optional `: Type` and ',', or one unexpected token; a ')' is left.
AfterParam(q) ==
    LET e == skip_newlines(q)
        n == After(e)
        t == IF Kind(n) # "Colon" THEN n
             ELSE IF Kind(After(n)) = "Identifier" THEN After(After(n))
             ELSE After(n)
    IN  IF Kind(e) = "Identifier" THEN (IF Kind(t) = "Comma" THEN advance(t) ELSE t)
        ELSE IF Kind(e) = "CloseParen" THEN e
        ELSE advance(e)

\* The parameter names after the iteration that starts in q.
ParamsAfter(q) ==
    IF q.pc = "params" /\ Kind(skip_newlines(q)) = "Identifier"
    THEN Append(q.fn.params, skip_newlines(q).current_token.text)
    ELSE IF InFunction(q) THEN q.fn.params
    ELSE <<>>

\* Where the parser stands after the iteration that starts in q, within
\* the parameter list or at its end.
ListPoint(q) ==
    IF q.pc = "params" THEN AfterParam(q)
    ELSE LET n == After(After(AtKeyword(q)))
         IN  IF Kind(n) = "OpenParen" THEN advance(n) ELSE n

ListGoesOn(q) ==
    /\ q.pc = "params" \/ Kind(After(After(AtKeyword(q)))) = "OpenParen"
    /\ Kind(ListPoint(q)) \notin {"CloseParen", "Eof"}

\* The return type as written after the parameter list.
WrittenReturn(q) ==
    LET x == ListPoint(q)
        a == skip_newlines(IF Kind(x) = "CloseParen" THEN advance(x) ELSE x)
    IN  IF Kind(a) = "Arrow" /\ Kind(After(a)) = "Identifier"
        THEN Some(After(a).current_token.text)
        ELSE None

\* The signature the function has after the iteration that starts in q.
SigAfter(q) ==
    IF q.pc = "function_body" THEN Sig(q.fn)
    ELSE [params |-> ParamsAfter(q),
          return_type |-> IF ListGoesOn(q) THEN None ELSE WrittenReturn(q)]

(***************************************************************************)
(* C13.  For every function declaration params holds exactly the          *)
(* parameter names in source order, one entry per parameter: the type      *)
(* written after ':' is consumed and never added to params, and unexpected *)
(* tokens in the list are skipped; return_type is Some(T) iff '->' is      *)
(* followed by an identifier T, else None.                                 *)
(***************************************************************************)
C13_ParamsAndReturnType ==
    [][ParserMoves =>
        IF InFunction(p) \/ StartsFunction(p)
        THEN \/ /\ InFunction(p')
                /\ Sig(p'.fn) = SigAfter(p)
                /\ AllSigs(p') = AllSigs(p)
                /\ (p.pc # "function_body" /\ ListGoesOn(p)) =>
                     /\ p'.pc = "params"
                     /\ p'.lexer = ListPoint(p).lexer
                     /\ p'.current_token = ListPoint(p).current_token
             \/ /\ ~InFunction(p')
                /\ AllSigs(p') = Append(AllSigs(p), SigAfter(p))
        ELSE /\ ~InFunction(p')
             /\ AllSigs(p') = AllSigs(p)]_vars

\* `fun f( x: T)`: the one parameter x, the type T not among the params.
C13_Witness ==
    /\ pc = "done"
    /\ source = ParamsLead \o <<" ", "x", ":", " ", "T", ")">>
    /\ Len(result.ast) = 1
    /\ result.ast[1].type = "Function"
    /\ result.ast[1].params = << <<"x">> >>
    /\ result.ast[1].return_type = None
    /\ result.success

\* `fun f(x)-> T{}`: the return type T.
C13_ReturnReached ==
    /\ pc = "done"
    /\ source = ReturnLead \o <<"-", ">", " ", "T", "{", "}">>
    /\ Len(result.ast) = 1
    /\ result.ast[1].params = << <<"x">> >>
    /\ result.ast[1].return_type = Some(<<"T">>)
    /\ result.success

\* s is t with at most one element appended.
GrowsByAtMostOne(s, t) ==
    /\ Len(s) <= Len(t)
    /\ Len(t) <= Len(s) + 1
    /\ SubSeq(t, 1, Len(s)) = s

\* The line numbers of a node list never decrease.
LinesInOrder(nodes) ==
    \A i \in 1..(Len(nodes) - 1) : nodes[i].line <= nodes[i + 1].line
AllLinesInOrder(nodes) ==
    /\ LinesInOrder(nodes)
    /\ \A i \in 1..Len(nodes) :
          nodes[i].type \in {"Spirit", "Gene"} => LinesInOrder(nodes[i].body)

\* The type of the node of the body member the parser works on.
MemberType(q) ==
    CASE q.pc \in {"params", "function_body"} -> "Function"
      [] q.pc = "constraint_body" -> "Constraint"
      [] q.pc = "exegesis_body" -> "Exegesis"
      [] OTHER ->
            CASE Kind(skip_newlines(q)) = "Has" -> "Field"
              [] Kind(skip_newlines(q)) \in {"Fun", "Sex"} -> "Function"
              [] Kind(skip_newlines(q)) = "Constraint" -> "Constraint"
              [] Kind(skip_newlines(q)) = "Exegesis" -> "Exegesis"
              [] Kind(skip_newlines(q)) = "Comment" -> "Comment"
              [] OTHER -> "none"

\* The body of the block the parser was in, after the step.
BodyAfter(q, r) == IF r.blk.active THEN r.blk.body ELSE r.nodes[Len(r.nodes)].body

(***************************************************************************)
(* C14.  The nodes of the top-level list and of every spirit/gene body     *)
(* stand in the order in which their constructs start in the source (line  *)
(* numbers never decrease), and each recognised member of a body (has,     *)
(* constraint, fun, exegesis, comment) adds its node to that body and to   *)
(* no other list.                                                          *)
(***************************************************************************)
C14_SourceOrder ==
    [][/\ ParserMoves =>
          /\ GrowsByAtMostOne(p.nodes, p'.nodes)
          /\ AllLinesInOrder(p'.nodes)
          /\ LinesInOrder(p'.blk.body)
          /\ p.blk.active =>
               /\ IF p'.blk.active THEN p'.nodes = p.nodes
                  ELSE /\ Len(p'.nodes) = Len(p.nodes) + 1
                       /\ p'.nodes[Len(p'.nodes)].type = p.blk.kind
                       /\ p'.nodes[Len(p'.nodes)].line = p.blk.line
               /\ GrowsByAtMostOne(p.blk.body, BodyAfter(p, p'))
               /\ Len(BodyAfter(p, p')) > Len(p.blk.body) =>
                    BodyAfter(p, p')[Len(p.blk.body) + 1].type = MemberType(p)
          /\ (~p.blk.active /\ p'.blk.active) =>
               /\ p'.nodes = p.nodes
               /\ p'.blk.body = <<>>
       /\ pc' = "done" => AllLinesInOrder(result'.ast)]_vars

\* `gene a{`, a newline, `fun f(x){}`; the function of line 2 is in the
\* body of the gene of line 1 and not in the top-level list.
C14_Witness ==
    /\ pc = "done"
    /\ source = FragGeneA \o <<"\n">> \o FragFunF
    /\ Len(result.ast) = 1
    /\ result.ast[1].type = "Gene"
    /\ result.ast[1].line = 1
    /\ Len(result.ast[1].body) = 1
    /\ result.ast[1].body[1].type = "Function"
    /\ result.ast[1].body[1].line = 2

\* Two top-level functions on lines 1 and 2.
C14_TwoLinesReached ==
    /\ pc = "done"
    /\ source = FragFunF \o <<"\n">> \o FragFunF
    /\ Len(result.ast) = 2
    /\ result.ast[1].line = 1
    /\ result.ast[2].line = 2

\* compile_dol has built its CompileResult.
Compiled == pc \in {"compiled", "done"}

\* No error of the second kind stands before an error of the first kind.
KindsInOrder(errors, first, second) ==
    /\ \A i \in 1..Len(errors) : errors[i].error_type \in {first, second}
    /\ \A i, j \in 1..Len(errors) :
          (errors[i].error_type = second /\ errors[j].error_type = first) => j < i

OfType(errors, type) ==
    LET Is(e) == e.error_type = type IN SelectSeq(errors, Is)

(***************************************************************************)
(* C15.  In the errors list of every CompileResult all BracketErrors of    *)
(* validate_brackets come before all SyntaxErrors of the parser, and each  *)
(* of the two groups keeps the order in which its errors were recorded.    *)
(***************************************************************************)
C15_BracketErrorsFirst ==
    [][/\ ParserMoves =>
          /\ Len(p.errors) <= Len(p'.errors)
          /\ SubSeq(p'.errors, 1, Len(p.errors)) = p.errors
       /\ Compiled' =>
          /\ KindsInOrder(result'.errors, "BracketError", "SyntaxError")
          /\ OfType(result'.errors, "BracketError") = validate_brackets(source)
          /\ OfType(result'.errors, "SyntaxError") = p.errors]_vars

\* `}`, `}`, `gene `: two bracket errors, then the parser's one error.
C15_Witness ==
    /\ pc = "done"
    /\ source = <<"}", "}">> \o FragGene
    /\ Len(result.errors) = 3
    /\ result.errors[1].error_type = "BracketError"
    /\ result.errors[1].column = 1
    /\ result.errors[2].error_type = "BracketError"
    /\ result.errors[2].column = 2
    /\ result.errors[3].error_type = "SyntaxError"

\* The nodes of one kind in a list, the bodies of its nodes left aside.
TopLevel(ast, type) ==
    LET Is(n) == n.type = type IN SelectSeq(ast, Is)

(***************************************************************************)
(* C16.  spirit_count, gene_count and function_count of the metadata each  *)
(* equal the number of nodes of that kind in the top-level AST list only:  *)
(* a function nested in a spirit or gene body is not counted in            *)
(* function_count.                                                         *)
(***************************************************************************)
C16_CountsTopLevelOnly ==
    Compiled =>
       /\ result.metadata.spirit_count = Len(TopLevel(result.ast, "Spirit"))
       /\ result.metadata.gene_count = Len(TopLevel(result.ast, "Gene"))
       /\ result.metadata.function_count = Len(TopLevel(result.ast, "Function"))

\* `gene a{fun f(x){}}`: one gene, and its function is not counted.
C16_Witness ==
    /\ pc = "done"
    /\ source = FragGeneA \o FragFunF \o <<"}">>
    /\ Len(result.ast) = 1
    /\ result.ast[1].type = "Gene"
    /\ Len(result.ast[1].body) = 1
    /\ result.ast[1].body[1].type = "Function"
    /\ result.metadata.gene_count = 1
    /\ result.metadata.function_count = 0
    /\ result.success

(***************************************************************************)
(* C17.  Inside a spirit or gene body the contents of a nested brace block *)
(* (brace depth greater than 1) are only depth-tracked: a has, fun,        *)
(* sex fun, constraint, exegesis or comment inside the nested block adds   *)
(* no node to the enclosing body.  The depth of the body does not change   *)
(* while a member is parsed, so a node added at a depth above 1 comes from *)
(* a member that stands inside a nested block.                             *)
(***************************************************************************)
C17_NestedBlockNotInterpreted ==
    [][(ParserMoves /\ p.blk.active /\ p.blk.brace_depth > 1)
       => BodyAfter(p, p') = p.blk.body]_vars

\* `gene a{{fun f(x){}`: the function of the nested block is in the body.
C17_NestedMemberReached ==
    /\ pc = "parsing"
    /\ source = FragGeneA \o <<"{">> \o FragFunF
    /\ p.blk.active
    /\ p.blk.brace_depth = 2
    /\ Len(p.blk.body) = 1
    /\ p.blk.body[1].type = "Function"

\* The iteration stands at a `sex` whose next token, newlines aside, is not
\* `fun`; and the parser at that next token.
SexWithoutFun(q) ==
    /\ q.pc \in {"parse", "parse_body"}
    /\ Kind(skip_newlines(q)) = "Sex"
    /\ Kind(After(skip_newlines(q))) # "Fun"
AfterSexKeyword(q) == After(skip_newlines(q))

(***************************************************************************)
(* C18.  A `sex` whose next non-newline token is not `fun` records exactly *)
(* one SyntaxError "Expected 'fun' after 'sex'" positioned at that next    *)
(* token, adds no Function node, and leaves that token unconsumed, so that *)
(* the next iteration of the same loop dispatches it; at top level and     *)
(* inside a body alike.                                                    *)
(***************************************************************************)
C18_SexWithoutFun ==
    [][(ParserMoves /\ SexWithoutFun(p))
       =>
       (/\ p'.errors = Append(p.errors,
              CompileError("Expected 'fun' after 'sex'",
                           AfterSexKeyword(p).current_line,
                           AfterSexKeyword(p).current_column, "SyntaxError"))
        /\ p'.nodes = p.nodes
        /\ p'.blk = p.blk
        /\ p'.warnings = p.warnings
        /\ p'.pc = p.pc
        /\ p'.current_token = AfterSexKeyword(p).current_token
        /\ p'.current_line = AfterSexKeyword(p).current_line
        /\ p'.current_column = AfterSexKeyword(p).current_column
        /\ p'.lexer = AfterSexKeyword(p).lexer)]_vars

\* `sex `, `x `, `fun f(x){}`: one error at the x of column 5, the x then
\* warned about as an identifier, and the function not effectful.
C18_Witness ==
    /\ pc = "done"
    /\ source = FragSex \o FragX \o FragFunF
    /\ result.errors =
          <<CompileError("Expected 'fun' after 'sex'", 1, 5, "SyntaxError")>>
    /\ result.warnings = <<Warning(<<"x">>, 1)>>
    /\ Len(result.ast) = 1
    /\ result.ast[1].type = "Function"
    /\ ~result.ast[1].effectful

\* The same in a body: `gene a{`, `sex `, `}`; the '}' still closes the body.
C18_InBodyReached ==
    /\ pc = "done"
    /\ source = FragGeneA \o FragSex \o <<"}">>
    /\ result.errors =
          <<CompileError("Expected 'fun' after 'sex'", 1, 12, "SyntaxError")>>
    /\ Len(result.ast) = 1
    /\ result.ast[1].body = <<>>

\* The kinds of token the loop of parse has an arm for.
TopLevelKinds ==
    {"Eof", "Spirit", "Gene", "Comment", "Exegesis", "Pub", "Fun", "Sex"}

(***************************************************************************)
(* C19.  At top level every identifier that starts no declaration adds     *)
(* exactly one warning naming that identifier and its line, adds no error  *)
(* and no node, and is consumed; every other unrecognised top-level token  *)
(* (punctuation, literal, keyword that starts no declaration, unknown      *)
(* character) is consumed adding neither an error nor a node.              *)
(***************************************************************************)
C19_TopLevelUnknownToken ==
    [][(/\ ParserMoves
        /\ p.pc = "parse"
        /\ Kind(skip_newlines(p)) \notin TopLevelKinds)
       =>
       (/\ p'.warnings =
              IF Kind(skip_newlines(p)) = "Identifier"
              THEN Append(p.warnings,
                          Warning(skip_newlines(p).current_token.text,
                                  skip_newlines(p).current_line))
              ELSE p.warnings
        /\ p'.errors = p.errors
        /\ p'.nodes = p.nodes
        /\ p'.blk = p.blk
        /\ p'.pc = "parse"
        /\ p'.current_token = advance(skip_newlines(p)).current_token
        /\ p'.lexer = advance(skip_newlines(p)).lexer)]_vars

\* `x `, a newline, `x `: two warnings, for lines 1 and 2, and nothing else.
C19_Witness ==
    /\ pc = "done"
    /\ source = FragX \o <<"\n">> \o FragX
    /\ result.warnings = <<Warning(<<"x">>, 1), Warning(<<"x">>, 2)>>
    /\ result.errors = <<>>
    /\ result.ast = <<>>
    /\ result.success

\* `has `, `constraint `: keywords that start nothing at top level.
C19_KeywordsReached ==
    /\ pc = "done"
    /\ source = <<"h", "a", "s", " ">>
                \o <<"c", "o", "n", "s", "t", "r", "a", "i", "n", "t", " ">>
    /\ result.warnings = <<>>
    /\ result.errors = <<>>
    /\ result.ast = <<>>

\* The loops that collect a raw body.
RawLoops == {"function_body", "constraint_body", "exegesis_body"}

\* The index of the current token in the token run (the token is not Eof).
CurrentIndex(q) == q.lexer.next - 1

\* The index of the '{' that the '}' after st.i matches, counting the brace
\* tokens backwards; 0 if there is none.
RECURSIVE OpenerOf(_)
OpenerOf(st) ==
    CASE st.i = 0 -> 0
      [] st.run[st.i].token.kind = "OpenBrace" /\ st.d = 0 -> st.i
      [] st.run[st.i].token.kind = "OpenBrace" ->
            OpenerOf([st EXCEPT !.i = @ - 1, !.d = @ - 1])
      [] st.run[st.i].token.kind = "CloseBrace" ->
            OpenerOf([st EXCEPT !.i = @ - 1, !.d = @ + 1])
      [] OTHER -> OpenerOf([st EXCEPT !.i = @ - 1])
Opener(q) == OpenerOf([run |-> q.lexer.run, i |-> CurrentIndex(q) - 1, d |-> 0])

\* The text one token inside the braces adds to the raw body collected so far.
TokenText(loop, token, sofar) ==
    LET q == [current_token |-> token, fn |-> [brace_depth |-> 2, body |-> sofar]]
    IN  CASE loop = "function_body" -> function_body_text(q)
          [] loop = "constraint_body" -> constraint_body_text(q)
          [] OTHER -> exegesis_body_text(q)

\* The raw body of the tokens st.i .. st.last of the run.
RECURSIVE RawText(_)
RawText(st) ==
    IF st.i > st.last THEN st.sofar
    ELSE RawText([st EXCEPT
            !.i = @ + 1,
            !.sofar = @ \o TokenText(st.loop, st.run[st.i].token, st.sofar)])
TextBetween(q) ==
    RawText([loop |-> q.pc, run |-> q.lexer.run, i |-> Opener(q) + 1,
             last |-> CurrentIndex(q) - 1, sofar |-> <<>>])

\* The raw body of the node the step has just finished.
FinishedText(q, r) ==
    LET n == IF q.blk.active THEN r.blk.body[Len(r.blk.body)]
             ELSE r.nodes[Len(r.nodes)]
    IN  IF n.type = "Exegesis" THEN n.content ELSE n.body

(***************************************************************************)
(* C20.  For a function, constraint or exegesis whose body braces are      *)
(* balanced, the raw body is built from exactly the tokens strictly        *)
(* between the opening '{' and its matching '}' (inner brace pairs are in  *)
(* the text and do not end the body early), and when the construct returns *)
(* the parser's current token is the first token after that matching '}'.  *)
(***************************************************************************)
C20_RawBodyBetweenBraces ==
    [][(ParserMoves /\ p.pc \in RawLoops)
       =>
       (/\ p'.lexer = advance(p).lexer
        /\ p'.current_token = advance(p).current_token
        /\ (Kind(p) = "CloseBrace" /\ p.fn.brace_depth = 1) =>
              /\ Opener(p) > 0
              /\ p'.pc = CallerPc(p)
              /\ FinishedText(p, p') = Trim(TextBetween(p))
              /\ p'.current_token =
                    p.lexer.run[IF CurrentIndex(p) < Len(p.lexer.run)
                                THEN CurrentIndex(p) + 1
                                ELSE CurrentIndex(p)].token
        /\ (Kind(p) = "CloseBrace" /\ p.fn.brace_depth > 1
            /\ Kind(advance(p)) # "Eof") =>
              /\ p'.pc = p.pc
              /\ p'.fn.body = p.fn.body \o <<"}">>
        /\ (Kind(p) # "CloseBrace" /\ Kind(advance(p)) # "Eof") => p'.pc = p.pc)]_vars

\* `fun g{{}} x`: the body is "{}", and the x after the matching '}' is
\* the next thing parse sees.
C20_Witness ==
    /\ pc = "parsing"
    /\ source = FunctionBodyLead \o <<"{", "}", "}", " ", "x">>
    /\ p.pc = "parse"
    /\ Len(p.nodes) = 1
    /\ p.nodes[1].type = "Function"
    /\ p.nodes[1].body = <<"{", "}">>
    /\ p.current_token = Tok("Identifier", <<"x">>)

\* `gene a{constraint c{{ x}}`: the same for a constraint in a body.
C20_ConstraintReached ==
    /\ pc = "parsing"
    /\ source = ConstraintBodyLead \o <<"{", " ", "x", "}", "}">>
    /\ p.pc = "parse_body"
    /\ Len(p.blk.body) = 1
    /\ p.blk.body[1].type = "Constraint"
    /\ p.blk.body[1].body = <<"{", "x", "}">>

\* The token kinds by the groups of the Token enum, and the source text of
\* the kinds that have a fixed spelling.
KeywordKinds ==
    {"Spirit", "Gene", "Trait", "Fun", "Sex", "Has", "Let", "Const", "Mut", "If",
     "Else", "Match", "Return", "Exegesis", "Constraint", "Pub", "Self_"}
LiteralKinds == {"Identifier", "StringLiteral", "NumberLiteral", "Version"}
OperatorKinds == {"Plus", "Minus", "Star", "Slash", "Pipe", "PipeArrow"}

Spelling(kind) ==
    CASE kind = "Spirit" -> <<"s", "p", "i", "r", "i", "t">>
      [] kind = "Gene" -> <<"g", "e", "n", "e">>
      [] kind = "Trait" -> <<"t", "r", "a", "i", "t">>
      [] kind = "Fun" -> <<"f", "u", "n">>
      [] kind = "Sex" -> <<"s", "e", "x">>
      [] kind = "Has" -> <<"h", "a", "s">>
      [] kind = "Let" -> <<"l", "e", "t">>
      [] kind = "Const" -> <<"c", "o", "n", "s", "t">>
      [] kind = "Mut" -> <<"m", "u", "t">>
      [] kind = "If" -> <<"i", "f">>
      [] kind = "Else" -> <<"e", "l", "s", "e">>
      [] kind = "Match" -> <<"m", "a", "t", "c", "h">>
      [] kind = "Return" -> <<"r", "e", "t", "u", "r", "n">>
      [] kind = "Exegesis" -> <<"e", "x", "e", "g", "e", "s", "i", "s">>
      [] kind = "Constraint" -> <<"c", "o", "n", "s", "t", "r", "a", "i", "n", "t">>
      [] kind = "Pub" -> <<"p", "u", "b">>
      [] kind = "Self_" -> <<"s", "e", "l", "f">>
      [] kind = "Plus" -> <<"+">>
      [] kind = "Minus" -> <<"-">>
      [] kind = "Star" -> <<"*">>
      [] kind = "Slash" -> <<"/">>
      [] kind = "Pipe" -> <<"|">>
      [] OTHER -> <<"|", ">">>

\* The text of a token as a reader of the body expects it.
OwnText(t) ==
    CASE t.kind \in {"Identifier", "NumberLiteral"} -> t.text
      [] t.kind = "StringLiteral" -> <<"\"">> \o t.text \o <<"\"">>
      [] t.kind = "Version" -> <<"@">> \o t.text
      [] OTHER -> Spelling(t.kind)

\* What the step has appended to the raw body.
Appended(q, r) == SubSeq(r.fn.body, Len(q.fn.body) + 1, Len(r.fn.body))

(***************************************************************************)
(* C21.  When a function body is re-serialised, every identifier, keyword  *)
(* and literal token is rendered as its own text and every operator token  *)
(* as its symbol; a single space is emitted only for token kinds that are  *)
(* none of these.                                                          *)
(***************************************************************************)
C21_BodyTokensRendered ==
    [][(ParserMoves /\ p.pc = "function_body" /\ p'.pc = "function_body")
       =>
       (/\ Kind(p) \in KeywordKinds \cup LiteralKinds \cup OperatorKinds =>
              Appended(p, p') = OwnText(p.current_token)
        /\ Appended(p, p') = <<" ">> =>
              Kind(p) \notin KeywordKinds \cup LiteralKinds \cup OperatorKinds)]_vars

\* The same for the kinds the body loop of parse_function has an arm for.
C21_ArmsRendered ==
    [][(ParserMoves /\ p.pc = "function_body" /\ p'.pc = "function_body"
        /\ Kind(p) \in {"Identifier", "NumberLiteral", "StringLiteral", "Self_",
                        "Return", "Plus", "Minus", "Star", "Slash"})
       => Appended(p, p') = OwnText(p.current_token)]_vars

\* The tokens read as words of prose: identifiers, and the words that are
\* keywords of the language.
WordKinds == {"Identifier"} \cup KeywordKinds

\* A word in the content: after one space unless it starts the content or
\* follows a newline or a space.
WordInContent(content, t) ==
    IF Len(content) > 0 /\ content[Len(content)] \notin {"\n", " "}
    THEN <<" ">> \o OwnText(t)
    ELSE OwnText(t)

(***************************************************************************)
(* C22.  In an exegesis block consecutive identifier-like tokens on one    *)
(* line are separated by exactly one space in the content, every newline   *)
(* inside the block is preserved, and the content is trimmed at both ends; *)
(* no identifier-like word of the prose is dropped.                        *)
(***************************************************************************)
C22_ExegesisProse ==
    [][(ParserMoves /\ p.pc = "exegesis_body")
       =>
       IF p'.pc = "exegesis_body"
       THEN /\ Kind(p) \in WordKinds =>
                 Appended(p, p') = WordInContent(p.fn.body, p.current_token)
            /\ Kind(p) = "Newline" => Appended(p, p') = <<"\n">>
       ELSE /\ Kind(p) \in WordKinds =>
                 FinishedText(p, p') =
                    Trim(p.fn.body \o WordInContent(p.fn.body, p.current_token))
            /\ Kind(p) \in {"Newline", "CloseBrace"} =>
                 FinishedText(p, p') = Trim(p.fn.body)]_vars

\* The same with only the Identifier tokens taken as words.
C22_IdentifiersOnly ==
    [][(ParserMoves /\ p.pc = "exegesis_body" /\ p'.pc = "exegesis_body")
       =>
       (/\ Kind(p) = "Identifier" =>
              Appended(p, p') = WordInContent(p.fn.body, p.current_token)
        /\ Kind(p) = "Newline" => Appended(p, p') = <<"\n">>)]_vars

(***************************************************************************)
(* Helpers of the properties of the lexer.                                 *)
(***************************************************************************)
\* The index of the first character at or after index i that skip_whitespace
\* does not skip; Len(src) + 1 if there is none.
TokenStart(src, i) == i + Len(RunOf(src, i, {" ", "\t", "\r"}))

\* The token the last call of next_token returned.
Returned == returned[1]

LinesValid(nodes) ==
    \A i \in 1..Len(nodes) :
       /\ nodes[i].line >= 1
       /\ nodes[i].type \in {"Spirit", "Gene"} =>
             \A j \in 1..Len(nodes[i].body) : nodes[i].body[j].line >= 1

\* What follows from C23 for the parser and for compile_dol: every AST node
\* has line >= 1, every CompileError line >= 1 and column >= 1.
C23_PositionsInResults ==
    /\ pc = "parsing" =>
          /\ LinesValid(p.nodes)
          /\ LinesValid(p.blk.body)
          /\ \A i \in 1..Len(p.errors) : p.errors[i].line >= 1 /\ p.errors[i].column >= 1
    /\ Compiled =>
          /\ LinesValid(result.ast)
          /\ \A i \in 1..Len(result.errors) :
                result.errors[i].line >= 1 /\ result.errors[i].column >= 1
    /\ \A i \in 1..Len(bv.errors) : bv.errors[i].line >= 1 /\ bv.errors[i].column >= 1

(***************************************************************************)
(* C24.  Once next_token has returned Eof, every later call returns Eof    *)
(* again with the same line and column and changes no lexer state; no      *)
(* other token is ever produced after an Eof.                              *)
(***************************************************************************)
C24_EofIsTerminal ==
    [][(pc = "lex" /\ AtEof)
       =>
       (/\ returned' = returned
        /\ lexing' = lexing
        /\ eof_calls' = eof_calls + 1)]_vars

\* `x` and then three calls at the end of the input, each returning Eof at
\* line 1, column 2.
C24_Witness ==
    /\ pc = "lex"
    /\ source = <<"x">>
    /\ eof_calls = 3
    /\ returned = <<[token |-> Tok("Eof", <<>>), line |-> 1, column |-> 2]>>
    /\ lexing.pos = 2

\* The character a token starts with, and the one after it; NoChar at the end.
CharAt(src, i) == IF i >= 1 /\ i <= Len(src) THEN src[i] ELSE NoChar
FirstChar == CharAt(source, TokenStart(source, lexing.pos))
SecondChar == CharAt(source, TokenStart(source, lexing.pos) + 1)

\* The operator tokens of two characters and of one, by their first character.
TwoCharToken(c) ==
    CASE c = "-" -> "Arrow" [] c = "=" -> "FatArrow" [] c = "|" -> "PipeArrow"
      [] OTHER -> "none"
OneCharToken(c) ==
    CASE c = "-" -> "Minus" [] c = "=" -> "Equals" [] c = "|" -> "Pipe"
      [] OTHER -> "none"

(***************************************************************************)
(* C25.  The lexer emits Arrow, FatArrow or PipeArrow exactly when '-',    *)
(* '=' or '|' is immediately followed by '>' (consuming both characters as *)
(* one token positioned at the first), and otherwise emits Minus, Equals   *)
(* or Pipe consuming only the one character, so that the character after   *)
(* it starts the next token.                                               *)
(***************************************************************************)
C25_TwoCharOperators ==
    [][pc = "lex" =>
        /\ (FirstChar \in {"-", "=", "|"} /\ SecondChar = ">") =>
              /\ returned'[1].token = Tok(TwoCharToken(FirstChar), <<>>)
              /\ returned'[1].line = PosLine(source, TokenStart(source, lexing.pos))
              /\ returned'[1].column = PosCol(source, TokenStart(source, lexing.pos))
              /\ lexing'.pos = TokenStart(source, lexing.pos) + 2
        /\ (FirstChar \in {"-", "=", "|"} /\ SecondChar # ">") =>
              /\ returned'[1].token = Tok(OneCharToken(FirstChar), <<>>)
              /\ lexing'.pos = TokenStart(source, lexing.pos) + 1
        /\ returned'[1].token.kind \in {"Arrow", "FatArrow", "PipeArrow"} =>
              /\ returned'[1].token.kind = TwoCharToken(FirstChar)
              /\ SecondChar = ">"
        /\ returned'[1].token.kind \in {"Minus", "Equals", "Pipe"} =>
              /\ returned'[1].token.kind = OneCharToken(FirstChar)
              /\ SecondChar # ">"]_vars

\* ` |>-`: PipeArrow at column 2 takes both characters, the '-' is next.
C25_Witness ==
    /\ pc = "lex"
    /\ source = <<" ", "|", ">", "-">>
    /\ returned = <<[token |-> Tok("PipeArrow", <<>>), line |-> 1, column |-> 2]>>
    /\ lexing.pos = 4

\* `=x>`: Equals takes one character, and the '>' later is a token of its own.
C25_PlainReached ==
    /\ pc = "lex"
    /\ source = <<"=", "x", ">">>
    /\ returned = <<[token |-> Tok("Equals", <<>>), line |-> 1, column |-> 1]>>
    /\ lexing.pos = 2

\* The string state of validate_brackets after the characters 1..st.upto of a
\* text, by its own rule for quotes; the stacks play no part in it.
RECURSIVE StringStateAt(_, _)
StringStateAt(st, src) ==
    CASE st.i > st.upto -> st
      [] src[st.i] = "\n" -> StringStateAt([st EXCEPT !.i = @ + 1], src)
      [] OTHER ->
            StringStateAt(
               [i |-> st.i + 1, upto |-> st.upto,
                in_string |-> string_toggle(st, src[st.i]).in_string,
                string_char |-> string_toggle(st, src[st.i]).string_char,
                prev_char |-> src[st.i]], src)

\* The i-th character is read outside a string.
OutsideString(src, i) ==
    ~StringStateAt([i |-> 1, upto |-> i, in_string |-> FALSE,
                    string_char |-> "\"", prev_char |-> " "], src).in_string

\* The number of occurrences of a character outside strings among the first
\* n characters.
CountOutside(src, n, c) ==
    Cardinality({i \in 1..n : src[i] = c /\ OutsideString(src, i)})

\* No prefix closes more than it opens, and the totals are equal.
KindBalanced(src, open, close) ==
    /\ \A n \in 1..Len(src) : CountOutside(src, n, close) <= CountOutside(src, n, open)
    /\ CountOutside(src, Len(src), close) = CountOutside(src, Len(src), open)

(***************************************************************************)
(* C26.  validate_brackets checks braces and parentheses independently of  *)
(* each other, so a source whose braces and parentheses cross ('{', '(',   *)
(* '}', ')' in that order) yields no BracketError: it reports no error iff,*)
(* outside strings and for each kind separately, no prefix has more        *)
(* closers than openers and the totals of openers and closers are equal.   *)
(* The strings are those of the validator's own rule for quotes.           *)
(***************************************************************************)
C26_KindsIndependent ==
    pc = "scanned" =>
       (bv.errors = <<>>
        <=> (KindBalanced(source, "{", "}") /\ KindBalanced(source, "(", ")")))

\* `{(})`: crossing, and no error.
C26_Witness ==
    /\ pc = "scanned"
    /\ source = <<"{", "(", "}", ")">>
    /\ bv.errors = <<>>
    /\ bv.brace_stack = <<>>
    /\ bv.paren_stack = <<>>

\* `{)(}`: the braces balance, the parentheses do not, and there are errors.
C26_UnbalancedReached ==
    /\ pc = "scanned"
    /\ source = <<"{", ")", "(", "}">>
    /\ Len(bv.errors) = 2

\* The tokens the lexer delivers for a text, the final Eof left out.
TokensOf(src) ==
    LET run == LexerRun(Lexer_new(src)) IN SubSeq(run, 1, Len(run) - 1)

\* The character the scan reads lies inside a comment: the lexer delivers the
\* text up to and including it with a Comment as its last token, the same
\* tokens as without it but for the text of that comment.
InComment ==
    LET before == TokensOf(source)
        after == TokensOf(source')
    IN  /\ Len(after) > 0
        /\ Len(after) = Len(before)
        /\ after[Len(after)].token.kind = "Comment"
        /\ before[Len(before)].token.kind = "Comment"
        /\ after[Len(after)].token.text = Append(before[Len(before)].token.text, ScanChar)
        /\ SubSeq(after, 1, Len(after) - 1) = SubSeq(before, 1, Len(before) - 1)

\* What validate_brackets does with a bracket or quote character it reads
\* outside a comment.
ProcessedAsOutsideComment ==
    /\ (ScanChar = "{" /\ ~bv.in_string) =>
          /\ bv'.brace_stack = Append(bv.brace_stack, <<"{", bv.line, bv.column>>)
          /\ bv'.errors = bv.errors
    /\ (ScanChar = "(" /\ ~bv.in_string) =>
          /\ bv'.paren_stack = Append(bv.paren_stack, <<"(", bv.line, bv.column>>)
          /\ bv'.errors = bv.errors
    /\ (ScanChar = "}" /\ ~bv.in_string) =>
          IF bv.brace_stack = <<>>
          THEN /\ Len(bv'.errors) = Len(bv.errors) + 1
               /\ bv'.errors[Len(bv'.errors)].message = "Unexpected closing brace '}'"
          ELSE bv'.brace_stack = Pop(bv.brace_stack) /\ bv'.errors = bv.errors
    /\ (ScanChar = ")" /\ ~bv.in_string) =>
          IF bv.paren_stack = <<>>
          THEN /\ Len(bv'.errors) = Len(bv.errors) + 1
               /\ bv'.errors[Len(bv'.errors)].message = "Unexpected closing parenthesis ')'"
          ELSE bv'.paren_stack = Pop(bv.paren_stack) /\ bv'.errors = bv.errors
    /\ (ScanChar \in {"\"", "'"} /\ ~bv.in_string) =>
          bv'.in_string /\ bv'.string_char = ScanChar
    /\ (ScanChar \in {"\"", "'"} /\ bv.in_string /\ ScanChar = bv.string_char
        /\ bv.prev_char # "\\") =>
          ~bv'.in_string

(***************************************************************************)
(* C27.  validate_brackets is not comment-aware while the lexer is: a      *)
(* brace, parenthesis or quote character inside a '//' or '/* */' comment  *)
(* is processed by validate_brackets exactly as the same character outside *)
(* a comment (it is pushed, popped or toggles the string state), although  *)
(* the lexer delivers the whole comment as one Comment token and never as  *)
(* a structural token.                                                     *)
(***************************************************************************)
C27_ValidatorIgnoresComments ==
    [][(/\ ScanStep
        /\ ScanChar \in {"{", "}", "(", ")", "\"", "'"}
        /\ InComment)
       => ProcessedAsOutsideComment]_vars

\* `//{`: an error for the brace that the lexer has only as comment text.
C27_Witness ==
    /\ pc = "scanned"
    /\ source = <<"/", "/", "{">>
    /\ TokensOf(source) = <<[token |-> Tok("Comment", <<"{">>), line |-> 1, column |-> 1]>>
    /\ bv.errors = <<CompileError("Unclosed brace '{'", 1, 3, "BracketError")>>

\* `/*)*/`: the same in a block comment.
C27_BlockCommentReached ==
    /\ pc = "scanned"
    /\ source = <<"/", "*", ")", "*", "/">>
    /\ TokensOf(source) = <<[token |-> Tok("Comment", <<")">>), line |-> 1, column |-> 1]>>
    /\ bv.errors = <<CompileError("Unexpected closing parenthesis ')'", 1, 3, "BracketError")>>

\* The iteration of parse stands at a spirit or gene whose header fails.
HeaderFails(q) ==
    /\ q.pc = "parse"
    /\ Kind(skip_newlines(q)) \in {"Spirit", "Gene"}
    /\ MissingIdentifier(q) \/ MissingBlockBrace(q)

\* An error of a header has been recorded.
HeaderFailed(q) ==
    \E i \in 1..Len(q.errors) :
       q.errors[i].message \in {"Expected identifier", "Expected '{' after spirit name",
                                "Expected '{' after gene name"}

(***************************************************************************)
(* C28.  When a spirit or gene header fails (missing name or missing '{')  *)
(* the tokens of its would-be body are not skipped but dispatched by the   *)
(* top-level loop: a `fun` or `sex fun` among them becomes a top-level     *)
(* Function node, an identifier among them produces a top-level warning,   *)
(* and `has` / `constraint` keywords among them are dropped without a node.*)
(***************************************************************************)
C28_FailedHeaderBodyAtTopLevel ==
    [][ParserMoves =>
        /\ HeaderFails(p) =>
              /\ p'.pc = "parse"
              /\ ~p'.blk.active
              /\ p'.nodes = p.nodes
              /\ p'.current_token = Offender(p).current_token
              /\ p'.lexer = Offender(p).lexer
              /\ HeaderFailed(p')
        /\ (HeaderFailed(p) /\ ~p.blk.active) =>
              /\ ~p'.blk.active \/ (p.pc = "parse" /\ Kind(skip_newlines(p)) \in {"Spirit", "Gene"})
              /\ (p.pc = "parse" /\ Kind(skip_newlines(p)) \in {"Has", "Constraint"}) =>
                    /\ p'.nodes = p.nodes
                    /\ p'.warnings = p.warnings
                    /\ p'.errors = p.errors
                    /\ p'.pc = "parse"
                    /\ p'.lexer = advance(skip_newlines(p)).lexer
              /\ (p.pc = "parse" /\ Kind(skip_newlines(p)) = "Identifier") =>
                    /\ p'.nodes = p.nodes
                    /\ p'.errors = p.errors
                    /\ p'.warnings = Append(p.warnings,
                          Warning(skip_newlines(p).current_token.text,
                                  skip_newlines(p).current_line))
              /\ (InFunction(p) \/ StartsFunction(p)) =>
                    \/ InFunction(p') /\ p'.nodes = p.nodes
                    \/ /\ ~InFunction(p')
                       /\ Len(p'.nodes) = Len(p.nodes) + 1
                       /\ SubSeq(p'.nodes, 1, Len(p.nodes)) = p.nodes
                       /\ p'.nodes[Len(p'.nodes)].type = "Function"
                       /\ p'.nodes[Len(p'.nodes)].effectful = AfterSex(p)]_vars

\* `gene `, `{`, `fun f(x){}`: the name is missing, and the function of the
\* would-be body is a top-level node.
C28_Witness ==
    /\ pc = "done"
    /\ source = FragGene \o <<"{">> \o FragFunF
    /\ Len(result.ast) = 1
    /\ result.ast[1].type = "Function"
    /\ result.ast[1].name = <<"f">>
    /\ \E i \in 1..Len(result.errors) : result.errors[i].message = "Expected identifier"

\* `gene `, `has `, `x `: the `has` is dropped, the x is warned about.
C28_DroppedReached ==
    /\ pc = "done"
    /\ source = FragGene \o <<"h", "a", "s", " ">> \o FragX
    /\ result.ast = <<>>
    /\ result.warnings = <<Warning(<<"x">>, 1)>>
    /\ Len(result.errors) = 1

\* The types of the nodes parse pushes to its own list.
TopLevelTypes == {"Spirit", "Gene", "Function", "Exegesis", "Comment"}

\* Some node of the list is a block with a member of the type in its body.
HasNested(ast, type) ==
    \E i \in 1..Len(ast) :
       /\ ast[i].type \in {"Spirit", "Gene"}
       /\ \E j \in 1..Len(ast[i].body) : ast[i].body[j].type = type

(***************************************************************************)
(* C29.  Parser::parse never places a Field or Constraint node in the      *)
(* top-level list (only Spirit, Gene, Function, Exegesis and Comment nodes *)
(* can be top-level), so field_count and constraint_count of the compile   *)
(* metadata are 0 for every input.                                         *)
(***************************************************************************)
C29_NoTopLevelMembers ==
    /\ p # NoParser => \A i \in 1..Len(p.nodes) : p.nodes[i].type \in TopLevelTypes
    /\ Compiled =>
          /\ \A i \in 1..Len(result.ast) : result.ast[i].type \in TopLevelTypes
          /\ result.metadata.field_count = 0
          /\ result.metadata.constraint_count = 0

\* `gene a{`, `has `, `x `: the gene holds a field, and the count of fields is 0.
C29_Witness ==
    /\ pc = "done"
    /\ source = FragGeneA \o <<"h", "a", "s", " ">> \o FragX
    /\ HasNested(result.ast, "Field")
    /\ result.metadata.field_count = 0
    /\ result.metadata.gene_count = 1

\* A `has` and a `constraint` with no block around them: no node at all.
C29_TopLevelKeywordsReached ==
    /\ pc = "done"
    /\ source = <<"h", "a", "s", " ">> \o FragX
                  \o <<"c", "o", "n", "s", "t", "r", "a", "i", "n", "t", " ">>
    /\ result.ast = <<>>
    /\ result.metadata.field_count = 0
    /\ result.metadata.constraint_count = 0

\* A compiled constraint is in the body of a block, and is not counted.
C29_NestedConstraintReached ==
    /\ Compiled
    /\ HasNested(result.ast, "Constraint")
    /\ result.metadata.constraint_count = 0

=============================================================================
